---- MODULE Spec2Model ----
(***************************************************************************)
(* NovaDEX: the liquidity-pool, swap and perpetual-trading programs.       *)
(*                                                                         *)
(* Amounts are u64 / u128 / i64 in the source.  They are modelled as       *)
(* natural numbers of arbitrary size, written as little-endian sequences   *)
(* of base-10000 digits without leading zero digits (so equal numbers are  *)
(* equal sequences), because the 64-bit and 128-bit ranges of the source   *)
(* exceed the integers of the model checker.  Wrapping, truncation and     *)
(* checked arithmetic are then modelled at their real widths.              *)
(***************************************************************************)
EXTENDS Integers, Sequences, FiniteSets, TLC

\* ------------------------------------------------------------------------
\* Natural numbers as digit sequences
\* ------------------------------------------------------------------------

Base == 10000

RECURSIVE Num(_)
\* The number n (a small integer literal) as a digit sequence.
Num(n) == IF n = 0 THEN <<>> ELSE <<n % Base>> \o Num(n \div Base)

Zero == <<>>

RECURSIVE Norm(_)
\* Drops leading (most significant) zero digits.
Norm(a) ==
    IF a = <<>> THEN a
    ELSE IF a[Len(a)] = 0 THEN Norm(SubSeq(a, 1, Len(a) - 1)) ELSE a

Rest(a) == IF a = <<>> THEN <<>> ELSE Tail(a)
Low(a) == IF a = <<>> THEN 0 ELSE a[1]

RECURSIVE AddC(_, _, _)
AddC(a, b, c) ==
    IF a = <<>> /\ b = <<>>
    THEN (IF c = 0 THEN <<>> ELSE <<c>>)
    ELSE LET s == Low(a) + Low(b) + c
         IN  <<s % Base>> \o AddC(Rest(a), Rest(b), s \div Base)

NAdd(a, b) == AddC(a, b, 0)

RECURSIVE SubB(_, _, _)
\* a - b - borrow, for a >= b + borrow; digits not yet normalised.
SubB(a, b, w) ==
    IF a = <<>> THEN <<>>
    ELSE LET d == a[1] - Low(b) - w
         IN  IF d < 0 THEN <<d + Base>> \o SubB(Tail(a), Rest(b), 1)
                      ELSE <<d>> \o SubB(Tail(a), Rest(b), 0)

RECURSIVE CmpFrom(_, _, _)
\* Compares digits i, i-1, ..., 1 of two numbers of equal length: -1, 0, 1.
CmpFrom(a, b, i) ==
    IF i = 0 THEN 0
    ELSE IF a[i] < b[i] THEN -1
    ELSE IF a[i] > b[i] THEN 1
    ELSE CmpFrom(a, b, i - 1)

NCmp(a, b) ==
    IF Len(a) < Len(b) THEN -1
    ELSE IF Len(a) > Len(b) THEN 1
    ELSE CmpFrom(a, b, Len(a))

NLt(a, b) == NCmp(a, b) < 0
NLe(a, b) == NCmp(a, b) <= 0
NGt(a, b) == NCmp(a, b) > 0
NGe(a, b) == NCmp(a, b) >= 0

\* a - b for a >= b.
NSub(a, b) == Norm(SubB(a, b, 0))

RECURSIVE MulD(_, _, _)
\* a * k + c for a single digit k.
MulD(a, k, c) ==
    IF a = <<>> THEN (IF c = 0 THEN <<>> ELSE <<c>>)
    ELSE LET p == a[1] * k + c
         IN  <<p % Base>> \o MulD(Tail(a), k, p \div Base)

\* a * Base.
Shift(a) == IF a = <<>> THEN <<>> ELSE <<0>> \o a

\* The value of a number of at most two digits, as an integer.
Small(a) == Low(a) + Base * Low(Rest(a))

RECURSIVE MulLong(_, _)
MulLong(a, b) ==
    IF a = <<>> \/ b = <<>> THEN <<>>
    ELSE NAdd(Norm(MulD(a, b[1], 0)), Shift(MulLong(a, Tail(b))))

NMul(a, b) ==
    IF Len(a) <= 1 /\ Len(b) <= 1 THEN Num(Low(a) * Low(b)) ELSE MulLong(a, b)

RECURSIVE QDigit(_, _, _, _)
\* The largest q in lo..hi with b * q <= r (b * lo <= r is given).
QDigit(r, b, lo, hi) ==
    IF lo >= hi THEN lo
    ELSE LET mid == (lo + hi + 1) \div 2
         IN  IF NLe(Norm(MulD(b, mid, 0)), r)
             THEN QDigit(r, b, mid, hi)
             ELSE QDigit(r, b, lo, mid - 1)

Digit(a, i) == IF i <= Len(a) THEN a[i] ELSE 0

\* floor(r / b) for 0 <= r < b * Base: between the quotients of r's leading
\* digits by b's leading digit plus one and by b's leading digit.
QuotientDigit(r, b) ==
    LET n  == Len(b)
        rt == Digit(r, n) + Base * Digit(r, n + 1)
        lo == rt \div (b[n] + 1)
        hi == rt \div b[n]
    IN  QDigit(r, b, lo, IF hi < Base THEN hi ELSE Base - 1)

RECURSIVE DivStep(_, _, _, _)
\* Long division of a by b /= 0, digit i down to 1, with remainder r so far;
\* the pair <<quotient digits, remainder>>.
DivStep(a, b, i, r) ==
    IF i = 0 THEN <<(<<>>), r>>
    ELSE LET r1 == Norm(<<a[i]>> \o r)
             q  == QuotientDigit(r1, b)
             r2 == NSub(r1, Norm(MulD(b, q, 0)))
             t  == DivStep(a, b, i - 1, r2)
         IN  <<t[1] \o <<q>>, t[2]>>

\* floor(a / b) and a mod b, for b /= 0.
NDiv(a, b) ==
    IF Len(a) <= 2 /\ Len(b) <= 2 THEN Num(Small(a) \div Small(b))
    ELSE IF NLt(a, b) THEN Zero
    ELSE Norm(DivStep(a, b, Len(a), <<>>)[1])
NMod(a, b) ==
    IF Len(a) <= 2 /\ Len(b) <= 2 THEN Num(Small(a) % Small(b))
    ELSE IF NLt(a, b) THEN a
    ELSE DivStep(a, b, Len(a), <<>>)[2]

NMin(a, b) == IF NLe(a, b) THEN a ELSE b
NMax(a, b) == IF NGe(a, b) THEN a ELSE b

RECURSIVE Pow10(_)
Pow10(k) == IF k = 0 THEN Num(1) ELSE NMul(Pow10(k - 1), Num(10))

\* m * 10^k.
Dec(m, k) == NMul(Num(m), Pow10(k))

RECURSIVE SqrtStep(_, _)
\* Newton's iteration from a guess x >= floor(sqrt(n)), for n > 0.
SqrtStep(n, x) ==
    LET y == NDiv(NAdd(x, NDiv(n, x)), Num(2))
    IN  IF NGe(y, x) THEN x ELSE SqrtStep(n, y)

\* Base^k.
PowBase(k) == [i \in 1..(k + 1) |-> IF i = k + 1 THEN 1 ELSE 0]

\* floor(sqrt(n)): n < Base^Len(n), so Base^ceil(Len(n)/2) is above the root.
NSqrt(n) == IF n = Zero THEN Zero ELSE SqrtStep(n, PowBase((Len(n) + 1) \div 2))

\* ------------------------------------------------------------------------
\* Machine integers of the source
\* ------------------------------------------------------------------------

\* 2^63 = 9223372036854775808, 2^64 = 18446744073709551616, 2^128 = 2^64 * 2^64.
TwoP63 == <<5808, 5477, 368, 3372, 922>>
TwoP64 == <<1616, 955, 737, 6744, 1844>>
TwoP128 == NMul(TwoP64, TwoP64)
U64Max == NSub(TwoP64, Num(1))

\* The value of an expression whose evaluation panicked (a digit sequence
\* never holds a negative digit).
Panicked == <<-1>>

VARIABLES
    overflow_checks,  \* the build profile: TRUE when arithmetic overflow panics
    amount,           \* TokenAccount.amount of every token account
    lp_supply,        \* lp_mint.supply
    pool,             \* the LiquidityPool account, or NoAccount
    swap,             \* the SwapInfo account, or NoAccount
    perpetual,        \* the PerpetualMarket account, or NoAccount
    positions,        \* the Position accounts, NoAccount where none exists
    last,             \* the last instruction: arguments, result, requests
    calls             \* the number of instructions executed so far

vars == <<overflow_checks, amount, lp_supply, pool, swap, perpetual, positions, last,
          calls>>

NoAccount == [exists |-> FALSE]

\* `a * b` on u64: wraps in a build without overflow checks, panics with them.
MulU64(a, b) ==
    IF a = Panicked \/ b = Panicked THEN Panicked
    ELSE LET p == NMul(a, b)
         IN  IF NLe(p, U64Max) THEN p
             ELSE IF overflow_checks THEN Panicked ELSE NMod(p, TwoP64)

\* `a + b` on u64.
AddU64(a, b) ==
    IF a = Panicked \/ b = Panicked THEN Panicked
    ELSE LET s == NAdd(a, b)
         IN  IF NLe(s, U64Max) THEN s
             ELSE IF overflow_checks THEN Panicked ELSE NMod(s, TwoP64)

\* `a - b` on u64.
SubU64(a, b) ==
    IF a = Panicked \/ b = Panicked THEN Panicked
    ELSE IF NGe(a, b) THEN NSub(a, b)
    ELSE IF overflow_checks THEN Panicked ELSE NSub(NAdd(a, TwoP64), b)

\* `a / b` on u64 or u128: division by zero panics in every build.
DivInt(a, b) ==
    IF a = Panicked \/ b = Panicked \/ b = Zero THEN Panicked ELSE NDiv(a, b)

\* checked_mul(..).unwrap() on u64.
CheckedMulU64(a, b) ==
    IF a = Panicked \/ b = Panicked THEN Panicked
    ELSE LET p == NMul(a, b) IN IF NLe(p, U64Max) THEN p ELSE Panicked

\* checked_add(..).unwrap() on u64.
CheckedAddU64(a, b) ==
    IF a = Panicked \/ b = Panicked THEN Panicked
    ELSE LET s == NAdd(a, b) IN IF NLe(s, U64Max) THEN s ELSE Panicked

\* checked_sub(..).unwrap() on u64.
CheckedSubU64(a, b) ==
    IF a = Panicked \/ b = Panicked THEN Panicked
    ELSE IF NGe(a, b) THEN NSub(a, b) ELSE Panicked

\* checked_mul(..).unwrap() on u128.
CheckedMulU128(a, b) ==
    IF a = Panicked \/ b = Panicked THEN Panicked
    ELSE LET p == NMul(a, b) IN IF NLt(p, TwoP128) THEN p ELSE Panicked

\* `x as u64` of a u128: keeps the low 64 bits.
AsU64(a) == IF a = Panicked THEN Panicked ELSE NMod(a, TwoP64)

\* ------------------------------------------------------------------------
\* The token program (SPL Token), as the programs call it
\* ------------------------------------------------------------------------

\* token::transfer: the source must hold n (else InsufficientFunds); a
\* transfer from an account to itself ends there and moves nothing;
\* otherwise n is added to the destination with checked_add (else Overflow)
\* and taken from the source.
CanTransfer(am, from, n) == NGe(am[from], n)
CanReceive(am, from, to, n) == from = to \/ NLe(NAdd(am[to], n), U64Max)
Transfer(am, from, to, n) ==
    IF from = to THEN am
    ELSE [am EXCEPT ![from] = NSub(am[from], n), ![to] = NAdd(am[to], n)]

\* One request to the token program, as recorded in last.events.
Req(kind, from, to, n) == [kind |-> kind, from |-> from, to |-> to, n |-> n]
Check(err) == [kind |-> "check", from |-> err, to |-> "", n |-> Zero]
Write(what) == [kind |-> "write", from |-> what, to |-> "", n |-> Zero]

\* The state an instruction reads, kept for the record of the last one.
Snapshot ==
    [amount |-> amount, lp_supply |-> lp_supply, pool |-> pool, swap |-> swap,
     perpetual |-> perpetual, positions |-> positions]

Record(op, args, res, events, out) ==
    [op |-> op, args |-> args, res |-> res, events |-> events, out |-> out,
     pre |-> Snapshot]

\* The number of instructions in a run.
MaxCalls == 3

\* The run has instructions left.
Callable == calls < MaxCalls

\* The record of an instruction that has run.
Called(op, args, res, events, out) ==
    /\ last' = Record(op, args, res, events, out)
    /\ calls' = calls + 1

\* A failed instruction: the runtime discards every account change.
Reverted(op, args, res, events, out) ==
    /\ Called(op, args, res, events, out)
    /\ UNCHANGED <<overflow_checks, amount, lp_supply, pool, swap, perpetual, positions>>

\* The slippage check with the comparison dropped.
SlippageOk_always(computed, minimum) == TRUE

\* The slippage check letting through a value one below the minimum.
SlippageOk_one_below(computed, minimum) == NGe(NAdd(computed, Num(1)), minimum)

\* require!(computed >= minimum, ErrorCode::SlippageExceeded).
SlippageOk(computed, minimum) == NGe(computed, minimum)

\* ------------------------------------------------------------------------
\* programs/swap
\* ------------------------------------------------------------------------

\* A pool or swap account as initialize leaves it.
InitializedFee(fee) ==
    [exists |-> TRUE, fee_numerator |-> fee[1], fee_denominator |-> fee[2]]

\* The fee check with the numerator allowed to equal the denominator.
ValidFee_inclusive(fee_numerator, fee_denominator) ==
    NGt(fee_denominator, Zero) /\ NLe(fee_numerator, fee_denominator)

ValidFee(fee_numerator, fee_denominator) ==
    NGt(fee_denominator, Zero) /\ NLt(fee_numerator, fee_denominator)

calculate_swap_amount(reserve_in, reserve_out, amount_in, fee_numerator, fee_denominator) ==
    LET fee_multiplier == SubU64(fee_denominator, fee_numerator)
        amount_in_with_fee == MulU64(amount_in, fee_multiplier)
        numerator == MulU64(amount_in_with_fee, reserve_out)
        denominator == AddU64(MulU64(reserve_in, fee_denominator), amount_in_with_fee)
    IN  DivInt(numerator, denominator)

\* initialize: the account is written first and validated last; a failure
\* discards the writes together with the account that `init` created.
\* bumps is the set of keys of ctx.bumps: line 29 unwraps the entry
\* "swap_authority" after the fields are written and before the fee check.
initialize_swap(bumps, fee_numerator, fee_denominator) ==
    /\ Callable
    /\ ~swap.exists
    /\ LET args == [bumps |-> bumps, fee_numerator |-> fee_numerator,
                    fee_denominator |-> fee_denominator]
           events == <<Write("swap"), Check("InvalidFee")>>
       IN  IF "swap_authority" \notin bumps
           THEN Reverted("initialize", args, "Panic", <<Write("swap")>>, <<>>)
           ELSE IF ValidFee(fee_numerator, fee_denominator)
           THEN /\ swap' = InitializedFee(<<fee_numerator, fee_denominator>>)
                /\ Called("initialize", args, "Ok", events, <<>>)
                /\ UNCHANGED <<overflow_checks, amount, lp_supply, pool, perpetual, positions>>
           ELSE Reverted("initialize", args, "InvalidFee", events, <<>>)

\* swap_tokens from the slippage check on (lines 56-81), given the quote.
swap_tokens_settle(token_in_account, token_out_account, user_token_in_account, user_token_out_account, amount_in, minimum_amount_out, amount_out) ==
    LET args == [token_in_account |-> token_in_account,
                 token_out_account |-> token_out_account,
                 user_token_in_account |-> user_token_in_account,
                 user_token_out_account |-> user_token_out_account,
                 amount_in |-> amount_in,
                 minimum_amount_out |-> minimum_amount_out]
        out == [amount_out |-> amount_out]
        c1 == Check("SlippageExceeded")
        t1 == Req("transfer", user_token_in_account, token_in_account, amount_in)
        t2 == Req("transfer", token_out_account, user_token_out_account, amount_out)
        am1 == Transfer(amount, user_token_in_account, token_in_account, amount_in)
    IN  IF amount_out = Panicked
        THEN Reverted("swap_tokens", args, "Panic", <<>>, out)
        ELSE IF ~SlippageOk(amount_out, minimum_amount_out)
        THEN Reverted("swap_tokens", args, "SlippageExceeded", <<c1>>, out)
        ELSE IF ~CanTransfer(amount, user_token_in_account, amount_in)
        THEN Reverted("swap_tokens", args, "InsufficientFunds", <<c1, t1>>, out)
        ELSE IF ~CanReceive(amount, user_token_in_account, token_in_account, amount_in)
        THEN Reverted("swap_tokens", args, "Overflow", <<c1, t1>>, out)
        ELSE IF ~CanTransfer(am1, token_out_account, amount_out)
        THEN Reverted("swap_tokens", args, "InsufficientFunds", <<c1, t1, t2>>, out)
        ELSE IF ~CanReceive(am1, token_out_account, user_token_out_account, amount_out)
        THEN Reverted("swap_tokens", args, "Overflow", <<c1, t1, t2>>, out)
        ELSE /\ amount' = Transfer(am1, token_out_account, user_token_out_account,
                                   amount_out)
             /\ Called("swap_tokens", args, "Ok", <<c1, t1, t2>>, out)
             /\ UNCHANGED <<overflow_checks, lp_supply, pool, swap, perpetual, positions>>

\* swap_tokens, with token_in_account / token_out_account the two reserves in
\* the direction the caller chose.
swap_tokens(token_in_account, token_out_account, user_token_in_account, user_token_out_account, amount_in, minimum_amount_out) ==
    /\ Callable
    /\ swap.exists
    /\ swap_tokens_settle(token_in_account, token_out_account, user_token_in_account,
                          user_token_out_account, amount_in, minimum_amount_out,
                          calculate_swap_amount(amount[token_in_account],
                              amount[token_out_account], amount_in,
                              swap.fee_numerator, swap.fee_denominator))

\* ------------------------------------------------------------------------
\* programs/liquidity-pool
\* ------------------------------------------------------------------------

initialize_pool(fee_numerator, fee_denominator) ==
    /\ Callable
    /\ ~pool.exists
    /\ LET args == [fee_numerator |-> fee_numerator, fee_denominator |-> fee_denominator]
           events == <<Write("pool"), Check("InvalidFee")>>
       IN  IF ValidFee(fee_numerator, fee_denominator)
           THEN /\ pool' = InitializedFee(<<fee_numerator, fee_denominator>>)
                /\ Called("initialize_pool", args, "Ok", events, <<>>)
                /\ UNCHANGED <<overflow_checks, amount, lp_supply, swap, perpetual, positions>>
           ELSE Reverted("initialize_pool", args, "InvalidFee", events, <<>>)

\* The minimum replaced by the share of the first token alone.
MinInt_first(a, b) == IF a = Panicked \/ b = Panicked THEN Panicked ELSE a

\* The larger of the two shares in place of the smaller.
MinInt_larger(a, b) == IF a = Panicked \/ b = Panicked THEN Panicked ELSE NMax(a, b)

\* std::cmp::min of two values, both evaluated first.
MinInt(a, b) == IF a = Panicked \/ b = Panicked THEN Panicked ELSE NMin(a, b)

\* checked_sqrt().unwrap() of a u128.
SqrtInt(a) == IF a = Panicked THEN Panicked ELSE NSqrt(a)

\* The LP tokens add_liquidity mints (lines 51-70).
lp_tokens_to_mint(reserve_a, reserve_b, total_supply, amount_a, amount_b) ==
    IF total_supply = Zero
    THEN AsU64(SqrtInt(CheckedMulU128(amount_a, amount_b)))
    ELSE AsU64(MinInt(DivInt(CheckedMulU128(amount_a, total_supply), reserve_a),
                      DivInt(CheckedMulU128(amount_b, total_supply), reserve_b)))

\* add_liquidity with the result of the second deposit transfer dropped
\* instead of returned with `?`: when that transfer fails, the instruction
\* goes on to mint and ends Ok.
add_liquidity_settle_transfer_ignored(amount_a, amount_b, min_lp_tokens, lp) ==
    LET args == [amount_a |-> amount_a, amount_b |-> amount_b,
                 min_lp_tokens |-> min_lp_tokens]
        out == [lp_tokens_to_mint |-> lp]
        c1 == Check("SlippageExceeded")
        t1 == Req("transfer", "user_token_a", "token_a_account", amount_a)
        t2 == Req("transfer", "user_token_b", "token_b_account", amount_b)
        m3 == Req("mint_to", "lp_mint", "user_lp_token", lp)
        am1 == Transfer(amount, "user_token_a", "token_a_account", amount_a)
        am2 == IF /\ CanTransfer(am1, "user_token_b", amount_b)
                  /\ CanReceive(am1, "user_token_b", "token_b_account", amount_b)
               THEN Transfer(am1, "user_token_b", "token_b_account", amount_b)
               ELSE am1
    IN  IF lp = Panicked
        THEN Reverted("add_liquidity", args, "Panic", <<>>, out)
        ELSE IF ~SlippageOk(lp, min_lp_tokens)
        THEN Reverted("add_liquidity", args, "SlippageExceeded", <<c1>>, out)
        ELSE IF ~CanTransfer(amount, "user_token_a", amount_a)
        THEN Reverted("add_liquidity", args, "InsufficientFunds", <<c1, t1>>, out)
        ELSE IF ~CanReceive(amount, "user_token_a", "token_a_account", amount_a)
        THEN Reverted("add_liquidity", args, "Overflow", <<c1, t1>>, out)
        ELSE IF ~NLe(NAdd(lp_supply, lp), U64Max)
        THEN Reverted("add_liquidity", args, "Overflow", <<c1, t1, t2, m3>>, out)
        ELSE /\ amount' = [am2 EXCEPT !["user_lp_token"] = NAdd(@, lp)]
             /\ lp_supply' = NAdd(lp_supply, lp)
             /\ Called("add_liquidity", args, "Ok", <<c1, t1, t2, m3>>, out)
             /\ UNCHANGED <<overflow_checks, pool, swap, perpetual, positions>>

\* add_liquidity from the slippage check on (lines 72-121), given the LP
\* tokens to mint.
add_liquidity_settle(amount_a, amount_b, min_lp_tokens, lp) ==
    LET args == [amount_a |-> amount_a, amount_b |-> amount_b,
                 min_lp_tokens |-> min_lp_tokens]
        out == [lp_tokens_to_mint |-> lp]
        c1 == Check("SlippageExceeded")
        t1 == Req("transfer", "user_token_a", "token_a_account", amount_a)
        t2 == Req("transfer", "user_token_b", "token_b_account", amount_b)
        m3 == Req("mint_to", "lp_mint", "user_lp_token", lp)
        am1 == Transfer(amount, "user_token_a", "token_a_account", amount_a)
        am2 == Transfer(am1, "user_token_b", "token_b_account", amount_b)
    IN  IF lp = Panicked
        THEN Reverted("add_liquidity", args, "Panic", <<>>, out)
        ELSE IF ~SlippageOk(lp, min_lp_tokens)
        THEN Reverted("add_liquidity", args, "SlippageExceeded", <<c1>>, out)
        ELSE IF ~CanTransfer(amount, "user_token_a", amount_a)
        THEN Reverted("add_liquidity", args, "InsufficientFunds", <<c1, t1>>, out)
        ELSE IF ~CanReceive(amount, "user_token_a", "token_a_account", amount_a)
        THEN Reverted("add_liquidity", args, "Overflow", <<c1, t1>>, out)
        ELSE IF ~CanTransfer(am1, "user_token_b", amount_b)
        THEN Reverted("add_liquidity", args, "InsufficientFunds", <<c1, t1, t2>>, out)
        ELSE IF ~CanReceive(am1, "user_token_b", "token_b_account", amount_b)
        THEN Reverted("add_liquidity", args, "Overflow", <<c1, t1, t2>>, out)
        ELSE IF ~NLe(NAdd(lp_supply, lp), U64Max)
        THEN Reverted("add_liquidity", args, "Overflow", <<c1, t1, t2, m3>>, out)
        ELSE /\ amount' = [am2 EXCEPT !["user_lp_token"] = NAdd(@, lp)]
             /\ lp_supply' = NAdd(lp_supply, lp)
             /\ Called("add_liquidity", args, "Ok", <<c1, t1, t2, m3>>, out)
             /\ UNCHANGED <<overflow_checks, pool, swap, perpetual, positions>>

add_liquidity(amount_a, amount_b, min_lp_tokens) ==
    /\ Callable
    /\ pool.exists
    /\ add_liquidity_settle(amount_a, amount_b, min_lp_tokens,
           lp_tokens_to_mint(amount["token_a_account"], amount["token_b_account"],
                             lp_supply, amount_a, amount_b))

\* The amount of one token remove_liquidity pays out (lines 134-144).
withdraw_amount(lp_amount, reserve, total_supply) ==
    AsU64(DivInt(CheckedMulU128(lp_amount, reserve), total_supply))

\* remove_liquidity from the slippage check on (lines 146-197), given the two
\* amounts to pay out.
remove_liquidity_settle(lp_amount, min_amount_a, min_amount_b, token_a_amount, token_b_amount) ==
    LET args == [lp_amount |-> lp_amount, min_amount_a |-> min_amount_a,
                 min_amount_b |-> min_amount_b]
        out == [token_a_amount |-> token_a_amount, token_b_amount |-> token_b_amount]
        c1 == Check("SlippageExceeded")
        b1 == Req("burn", "user_lp_token", "lp_mint", lp_amount)
        t2 == Req("transfer", "token_a_account", "user_token_a", token_a_amount)
        t3 == Req("transfer", "token_b_account", "user_token_b", token_b_amount)
        am1 == [amount EXCEPT !["user_lp_token"] = NSub(@, lp_amount)]
        am2 == Transfer(am1, "token_a_account", "user_token_a", token_a_amount)
    IN  IF token_a_amount = Panicked \/ token_b_amount = Panicked
        THEN Reverted("remove_liquidity", args, "Panic", <<>>, out)
        ELSE IF ~(SlippageOk(token_a_amount, min_amount_a)
                  /\ SlippageOk(token_b_amount, min_amount_b))
        THEN Reverted("remove_liquidity", args, "SlippageExceeded", <<c1>>, out)
        ELSE IF ~CanTransfer(amount, "user_lp_token", lp_amount)
        THEN Reverted("remove_liquidity", args, "InsufficientFunds", <<c1, b1>>, out)
        ELSE IF ~CanTransfer(am1, "token_a_account", token_a_amount)
        THEN Reverted("remove_liquidity", args, "InsufficientFunds", <<c1, b1, t2>>, out)
        ELSE IF ~CanReceive(am1, "token_a_account", "user_token_a", token_a_amount)
        THEN Reverted("remove_liquidity", args, "Overflow", <<c1, b1, t2>>, out)
        ELSE IF ~CanTransfer(am2, "token_b_account", token_b_amount)
        THEN Reverted("remove_liquidity", args, "InsufficientFunds", <<c1, b1, t2, t3>>,
                      out)
        ELSE IF ~CanReceive(am2, "token_b_account", "user_token_b", token_b_amount)
        THEN Reverted("remove_liquidity", args, "Overflow", <<c1, b1, t2, t3>>, out)
        ELSE /\ amount' = Transfer(am2, "token_b_account", "user_token_b", token_b_amount)
             /\ lp_supply' = NSub(lp_supply, lp_amount)
             /\ Called("remove_liquidity", args, "Ok", <<c1, b1, t2, t3>>, out)
             /\ UNCHANGED <<overflow_checks, pool, swap, perpetual, positions>>

remove_liquidity(lp_amount, min_amount_a, min_amount_b) ==
    /\ Callable
    /\ pool.exists
    /\ remove_liquidity_settle(lp_amount, min_amount_a, min_amount_b,
           withdraw_amount(lp_amount, amount["token_a_account"], lp_supply),
           withdraw_amount(lp_amount, amount["token_b_account"], lp_supply))

\* ------------------------------------------------------------------------
\* programs/perpetual-trading
\* ------------------------------------------------------------------------

\* An i64 is a sign and a magnitude; zero is not negative.
I64(neg, mag) == [neg |-> neg /\ mag # Zero, mag |-> mag]
I64Min == I64(TRUE, TwoP63)

\* The i64 value of an expression whose evaluation panicked.
PanickedI64 == [neg |-> FALSE, mag |-> Panicked]

\* size.abs() on i64: i64::MIN overflows (panics with overflow checks, else
\* stays i64::MIN).
AbsI64(s) ==
    IF s = I64Min THEN (IF overflow_checks THEN PanickedI64 ELSE s)
    ELSE I64(FALSE, s.mag)

\* -size on i64.
NegI64(s) ==
    IF s = I64Min THEN (IF overflow_checks THEN PanickedI64 ELSE s)
    ELSE I64(~s.neg, s.mag)

\* `x as u64` and `x as u128` of an i64: two's complement at that width.
I64AsU64(s) ==
    IF s.mag = Panicked THEN Panicked
    ELSE IF s.neg THEN NSub(TwoP64, s.mag) ELSE s.mag
I64AsU128(s) ==
    IF s.mag = Panicked THEN Panicked
    ELSE IF s.neg THEN NSub(TwoP128, s.mag) ELSE s.mag

\* `a * b` on u128.
MulU128(a, b) ==
    IF a = Panicked \/ b = Panicked THEN Panicked
    ELSE LET p == NMul(a, b)
         IN  IF NLt(p, TwoP128) THEN p
             ELSE IF overflow_checks THEN Panicked ELSE NMod(p, TwoP128)

get_oracle_price == Num(5000)

\* Clock::get()?.unix_timestamp: the clock advances with every instruction.
unix_timestamp == NAdd(Dec(17, 8), Num(calls))

BpsDenominator == Num(10000)

calculate_price_impact(size, open_interest) ==
    IF open_interest = Zero THEN Zero
    ELSE LET impact == AsU64(DivInt(MulU128(I64AsU128(AbsI64(size)), Num(10000)),
                                    NMax(open_interest, Num(1))))
         IN  IF impact = Panicked THEN Panicked ELSE NMin(impact, Num(1000))

\* The market as initialize leaves it (lines 16-28); the funding fields keep
\* the zero of a new account.
InitializedMarket(c) ==
    [exists |-> TRUE, initial_margin_ratio |-> c[1],
     maintenance_margin_ratio |-> c[2], liquidation_fee |-> c[3],
     total_long_positions |-> Zero, total_short_positions |-> Zero,
     funding_rate |-> I64(FALSE, Zero), funding_index |-> Zero,
     last_funding_time |-> Zero, open_interest |-> Zero]

\* initialize (lines 10-31). bumps is the set of keys of ctx.bumps: line 22
\* unwraps the entry "perpetual" after the first fields of the market are
\* written, and panics when the map has none.
initialize_perpetual(bumps, initial_margin_ratio, maintenance_margin_ratio, liquidation_fee) ==
    /\ Callable
    /\ ~perpetual.exists
    /\ LET args == [bumps |-> bumps,
                    initial_margin_ratio |-> initial_margin_ratio,
                    maintenance_margin_ratio |-> maintenance_margin_ratio,
                    liquidation_fee |-> liquidation_fee]
       IN  IF "perpetual" \notin bumps
           THEN Reverted("initialize_perpetual", args, "Panic",
                         <<Write("perpetual")>>, <<>>)
           ELSE /\ perpetual' = InitializedMarket(<<initial_margin_ratio,
                                                    maintenance_margin_ratio,
                                                    liquidation_fee>>)
                /\ Called("initialize_perpetual", args, "Ok", <<Write("perpetual")>>, <<>>)
                /\ UNCHANGED <<overflow_checks, amount, lp_supply, pool, swap, positions>>

IsLong(size) == ~size.neg /\ size.mag # Zero

\* The side total computed from the total of the other side.
open_side_total_swapped(mkt, size) ==
    IF IsLong(size)
    THEN CheckedAddU64(mkt.total_short_positions, I64AsU64(size))
    ELSE CheckedAddU64(mkt.total_long_positions, I64AsU64(NegI64(size)))

\* The aggregates after a position of `size` is added (lines 85-92).
open_side_total(mkt, size) ==
    IF IsLong(size)
    THEN CheckedAddU64(mkt.total_long_positions, I64AsU64(size))
    ELSE CheckedAddU64(mkt.total_short_positions, I64AsU64(NegI64(size)))
\* open_interest left as it was when a position opens.
open_open_interest_kept(mkt, size) == mkt.open_interest
open_open_interest(mkt, size) ==
    CheckedAddU64(mkt.open_interest, I64AsU64(AbsI64(size)))
open_aggregates(mkt, size) ==
    IF IsLong(size)
    THEN [mkt EXCEPT !.total_long_positions = open_side_total(mkt, size),
                     !.open_interest = open_open_interest(mkt, size)]
    ELSE [mkt EXCEPT !.total_short_positions = open_side_total(mkt, size),
                     !.open_interest = open_open_interest(mkt, size)]

\* The leverage check with its upper bound off by one.
ValidLeverage_21(leverage) == leverage > 0 /\ leverage <= 21

\* leverage > 0 && leverage <= 20 (line 42).
ValidLeverage(leverage) == leverage > 0 /\ leverage <= 20

\* open_position given the values it computes at lines 49-60: the three
\* argument checks come before them, so a panic in them comes after.
open_position_checked(id, size, collateral, leverage, max_price_impact, price, notional_value, required_margin, price_impact) ==
    LET args == [id |-> id, size |-> size, collateral |-> collateral,
                 leverage |-> leverage, max_price_impact |-> max_price_impact]
        margin_per_leverage == DivInt(required_margin, Num(leverage))
        out == [price |-> price, notional_value |-> notional_value,
                required_margin |-> required_margin, price_impact |-> price_impact]
        c1 == Check("InvalidSize")
        c2 == Check("InvalidCollateral")
        c3 == Check("InvalidLeverage")
        c4 == Check("InsufficientCollateral")
        c5 == Check("PriceImpactTooHigh")
        t1 == Req("transfer", "user_quote_account", "quote_asset_vault", collateral)
        w1 == Write("position")
        w2 == Write("perpetual")
    IN  IF size.mag = Zero
        THEN Reverted("open_position", args, "InvalidSize", <<c1>>, out)
        ELSE IF ~NGt(collateral, Zero)
        THEN Reverted("open_position", args, "InvalidCollateral", <<c1, c2>>, out)
        ELSE IF ~ValidLeverage(leverage)
        THEN Reverted("open_position", args, "InvalidLeverage", <<c1, c2, c3>>, out)
        ELSE IF required_margin = Panicked
        THEN Reverted("open_position", args, "Panic", <<c1, c2, c3>>, out)
        ELSE IF ~NGe(collateral, margin_per_leverage)
        THEN Reverted("open_position", args, "InsufficientCollateral",
                      <<c1, c2, c3, c4>>, out)
        ELSE IF price_impact = Panicked
        THEN Reverted("open_position", args, "Panic", <<c1, c2, c3, c4>>, out)
        ELSE IF ~NLe(price_impact, max_price_impact)
        THEN Reverted("open_position", args, "PriceImpactTooHigh",
                      <<c1, c2, c3, c4, c5>>, out)
        ELSE IF ~CanTransfer(amount, "user_quote_account", collateral)
        THEN Reverted("open_position", args, "InsufficientFunds",
                      <<c1, c2, c3, c4, c5, t1>>, out)
        ELSE IF ~CanReceive(amount, "user_quote_account", "quote_asset_vault", collateral)
        THEN Reverted("open_position", args, "Overflow",
                      <<c1, c2, c3, c4, c5, t1>>, out)
        ELSE IF open_side_total(perpetual, size) = Panicked
        THEN Reverted("open_position", args, "Panic",
                      <<c1, c2, c3, c4, c5, t1, w1>>, out)
        ELSE IF open_open_interest(perpetual, size) = Panicked
        THEN Reverted("open_position", args, "Panic",
                      <<c1, c2, c3, c4, c5, t1, w1, w2>>, out)
        ELSE /\ amount' = Transfer(amount, "user_quote_account", "quote_asset_vault",
                                   collateral)
             /\ positions' = [positions EXCEPT ![id] =
                    [exists |-> TRUE, size |-> size, entry_price |-> price,
                     collateral |-> collateral, leverage |-> leverage,
                     last_funding_index |-> perpetual.funding_index,
                     created_at |-> unix_timestamp]]
             /\ perpetual' = open_aggregates(perpetual, size)
             /\ Called("open_position", args, "Ok",
                       <<c1, c2, c3, c4, c5, t1, w1, w2>>, out)
             /\ UNCHANGED <<overflow_checks, lp_supply, pool, swap>>

\* required_margin of open_position (line 53).
required_margin_of(notional_value, initial_margin_ratio) ==
    DivInt(CheckedMulU64(notional_value, initial_margin_ratio), BpsDenominator)

\* open_position from its notional value on (line 50).
open_position_priced(id, size, collateral, leverage, max_price_impact, price, notional_value) ==
    open_position_checked(id, size, collateral, leverage, max_price_impact, price,
        notional_value,
        required_margin_of(notional_value, perpetual.initial_margin_ratio),
        calculate_price_impact(size, perpetual.open_interest))

open_position(id, size, collateral, leverage, max_price_impact) ==
    /\ Callable
    /\ perpetual.exists
    /\ ~positions[id].exists
    /\ open_position_priced(id, size, collateral, leverage, max_price_impact,
           get_oracle_price, MulU64(I64AsU64(AbsI64(size)), get_oracle_price))

calculate_pnl(size, entry_price, exit_price) ==
    LET size_abs == I64AsU128(AbsI64(size))
        pnl_raw ==
            IF IsLong(size)
            THEN IF NGt(exit_price, entry_price)
                 THEN AsU64(CheckedMulU128(NSub(exit_price, entry_price), size_abs))
                 ELSE AsU64(CheckedMulU128(NSub(entry_price, exit_price), size_abs))
            ELSE IF NGt(entry_price, exit_price)
                 THEN AsU64(CheckedMulU128(NSub(entry_price, exit_price), size_abs))
                 ELSE AsU64(CheckedMulU128(NSub(exit_price, entry_price), size_abs))
        is_profit ==
            IF IsLong(size) THEN NGe(exit_price, entry_price)
                            ELSE NGe(entry_price, exit_price)
    IN  [pnl |-> pnl_raw, is_profit |-> is_profit]

\* The funding payment received whenever the index has risen, whatever the
\* side of the position.
calculate_funding_payment_any_side(size, last_index, current_index) ==
    LET payment == IF NGt(current_index, last_index)
                   THEN NSub(current_index, last_index)
                   ELSE NSub(last_index, current_index)
    IN  [payment |-> payment, is_received |-> NGt(current_index, last_index)]

calculate_funding_payment(size, last_index, current_index) ==
    LET payment == IF NGt(current_index, last_index)
                   THEN NSub(current_index, last_index)
                   ELSE NSub(last_index, current_index)
        is_received == \/ (IsLong(size) /\ NLt(current_index, last_index))
                       \/ (size.neg /\ NGt(current_index, last_index))
    IN  [payment |-> payment, is_received |-> is_received]

\* The funding step with the settlement emptied when the payment exceeds it.
settlement_after_funding_emptied(settlement, funding_payment, is_received) ==
    IF settlement = Panicked THEN Panicked
    ELSE IF is_received THEN CheckedAddU64(settlement, funding_payment)
    ELSE IF NLe(funding_payment, settlement)
    THEN CheckedSubU64(settlement, funding_payment)
    ELSE Zero

\* The settlement of close_position (lines 116-132).
settlement_after_pnl(collateral, pnl, is_profit) ==
    IF is_profit THEN CheckedAddU64(collateral, pnl)
    ELSE IF pnl = Panicked THEN Panicked
    ELSE IF NLe(pnl, collateral) THEN CheckedSubU64(collateral, pnl)
    ELSE Zero
settlement_after_funding(settlement, funding_payment, is_received) ==
    IF settlement = Panicked THEN Panicked
    ELSE IF is_received THEN CheckedAddU64(settlement, funding_payment)
    ELSE IF NLe(funding_payment, settlement)
    THEN CheckedSubU64(settlement, funding_payment)
    ELSE settlement

\* The side total left as it was when a position is removed.
close_side_total_kept(mkt, size) ==
    IF IsLong(size) THEN mkt.total_long_positions ELSE mkt.total_short_positions

\* The aggregates after a position of `size` is removed (lines 158-166 and
\* 230-238).
close_side_total(mkt, size) ==
    IF IsLong(size)
    THEN CheckedSubU64(mkt.total_long_positions, I64AsU64(AbsI64(size)))
    ELSE CheckedSubU64(mkt.total_short_positions, I64AsU64(AbsI64(size)))
\* open_interest left as it was when a position is removed.
close_open_interest_kept(mkt, size) == mkt.open_interest
close_open_interest(mkt, size) ==
    CheckedSubU64(mkt.open_interest, I64AsU64(AbsI64(size)))
\* The removal of a position that also starts the funding index again.
close_aggregates_index_reset(mkt, size) ==
    [mkt EXCEPT !.total_long_positions =
                    IF IsLong(size) THEN close_side_total(mkt, size) ELSE @,
                !.total_short_positions =
                    IF IsLong(size) THEN @ ELSE close_side_total(mkt, size),
                !.open_interest = close_open_interest(mkt, size),
                !.funding_index = Zero]

close_aggregates(mkt, size) ==
    IF IsLong(size)
    THEN [mkt EXCEPT !.total_long_positions = close_side_total(mkt, size),
                     !.open_interest = close_open_interest(mkt, size)]
    ELSE [mkt EXCEPT !.total_short_positions = close_side_total(mkt, size),
                     !.open_interest = close_open_interest(mkt, size)]

\* close_position from the slippage check on (lines 134-171), given the
\* profit or loss p, the funding payment f and the settlement amount.
close_position_settle(id, min_receive_amount, p, f, settlement_amount) ==
    LET position == positions[id]
        args == [id |-> id, min_receive_amount |-> min_receive_amount]
        out == [pnl |-> p.pnl, is_profit |-> p.is_profit,
                funding_payment |-> f.payment, is_received |-> f.is_received,
                settlement_amount |-> settlement_amount]
        c1 == Check("SlippageExceeded")
        t1 == Req("transfer", "quote_asset_vault", "user_quote_account",
                  settlement_amount)
        pay == IF NGt(settlement_amount, Zero) THEN <<t1>> ELSE <<>>
        w1 == Write("perpetual")
        w2 == Write("position")
    IN  IF settlement_amount = Panicked
        THEN Reverted("close_position", args, "Panic", <<>>, out)
        ELSE IF ~SlippageOk(settlement_amount, min_receive_amount)
        THEN Reverted("close_position", args, "SlippageExceeded", <<c1>>, out)
        ELSE IF ~CanTransfer(amount, "quote_asset_vault", settlement_amount)
        THEN Reverted("close_position", args, "InsufficientFunds", <<c1>> \o pay, out)
        ELSE IF ~CanReceive(amount, "quote_asset_vault", "user_quote_account", settlement_amount)
        THEN Reverted("close_position", args, "Overflow", <<c1>> \o pay, out)
        ELSE IF close_side_total(perpetual, position.size) = Panicked
        THEN Reverted("close_position", args, "Panic", <<c1>> \o pay, out)
        ELSE IF close_open_interest(perpetual, position.size) = Panicked
        THEN Reverted("close_position", args, "Panic", <<c1>> \o pay \o <<w1>>, out)
        ELSE /\ amount' = Transfer(amount, "quote_asset_vault", "user_quote_account",
                                   settlement_amount)
             /\ perpetual' = close_aggregates(perpetual, position.size)
             /\ positions' = [positions EXCEPT ![id] = NoAccount]
             /\ Called("close_position", args, "Ok", <<c1>> \o pay \o <<w1, w2>>, out)
             /\ UNCHANGED <<overflow_checks, lp_supply, pool, swap>>

\* close_position from the settlement on (lines 116-132).
close_position_priced(id, min_receive_amount, p, f) ==
    close_position_settle(id, min_receive_amount, p, f,
        settlement_after_funding(
            settlement_after_pnl(positions[id].collateral, p.pnl, p.is_profit),
            f.payment, f.is_received))

close_position(id, min_receive_amount) ==
    /\ Callable
    /\ perpetual.exists
    /\ positions[id].exists
    /\ close_position_priced(id, min_receive_amount,
           calculate_pnl(positions[id].size, positions[id].entry_price,
                         get_oracle_price),
           calculate_funding_payment(positions[id].size,
                                     positions[id].last_funding_index,
                                     perpetual.funding_index))

\* remaining_collateral of liquidate_position (lines 183-187): the profit
\* flag of calculate_pnl is dropped.
remaining_collateral(collateral, pnl) ==
    IF pnl = Panicked THEN Panicked
    ELSE IF NLe(pnl, collateral) THEN CheckedSubU64(collateral, pnl) ELSE Zero

\* margin_ratio of liquidate_position (lines 189-193).
margin_ratio(remaining, position_notional) ==
    AsU64(DivInt(CheckedMulU128(remaining, Num(10000)), position_notional))

\* liquidation_fee of liquidate_position (lines 202-206).
liquidation_fee(position_notional, fee_bps) ==
    DivInt(CheckedMulU64(position_notional, fee_bps), Num(10000))

\* liquidate_position from the margin check on (lines 195-243).
liquidate_position_settle(id, pnl, position_notional, remaining, ratio, fee) ==
    LET position == positions[id]
        args == [id |-> id]
        out == [pnl |-> pnl, position_notional |-> position_notional,
                remaining_collateral |-> remaining, margin_ratio |-> ratio,
                liquidation_fee |-> fee]
        c1 == Check("CannotLiquidate")
        c2 == Check("InsufficientCollateralForLiquidation")
        t1 == Req("transfer", "quote_asset_vault", "liquidator_quote_account", fee)
        w1 == Write("perpetual")
        w2 == Write("position")
    IN  IF ratio = Panicked
        THEN Reverted("liquidate_position", args, "Panic", <<>>, out)
        ELSE IF ~NLt(ratio, perpetual.maintenance_margin_ratio)
        THEN Reverted("liquidate_position", args, "CannotLiquidate", <<c1>>, out)
        ELSE IF fee = Panicked
        THEN Reverted("liquidate_position", args, "Panic", <<c1>>, out)
        ELSE IF ~NGe(remaining, fee)
        THEN Reverted("liquidate_position", args,
                      "InsufficientCollateralForLiquidation", <<c1, c2>>, out)
        ELSE IF ~CanTransfer(amount, "quote_asset_vault", fee)
        THEN Reverted("liquidate_position", args, "InsufficientFunds",
                      <<c1, c2, t1>>, out)
        ELSE IF ~CanReceive(amount, "quote_asset_vault", "liquidator_quote_account", fee)
        THEN Reverted("liquidate_position", args, "Overflow", <<c1, c2, t1>>, out)
        ELSE IF close_side_total(perpetual, position.size) = Panicked
        THEN Reverted("liquidate_position", args, "Panic", <<c1, c2, t1>>, out)
        ELSE IF close_open_interest(perpetual, position.size) = Panicked
        THEN Reverted("liquidate_position", args, "Panic", <<c1, c2, t1, w1>>, out)
        ELSE /\ amount' = Transfer(amount, "quote_asset_vault",
                                   "liquidator_quote_account", fee)
             /\ perpetual' = close_aggregates(perpetual, position.size)
             /\ positions' = [positions EXCEPT ![id] = NoAccount]
             /\ Called("liquidate_position", args, "Ok", <<c1, c2, t1, w1, w2>>, out)
             /\ UNCHANGED <<overflow_checks, lp_supply, pool, swap>>

\* liquidate_position from the margin ratio on (lines 189-206).
liquidate_position_margin(id, pnl, position_notional, remaining) ==
    liquidate_position_settle(id, pnl, position_notional, remaining,
        margin_ratio(remaining, position_notional),
        liquidation_fee(position_notional, perpetual.liquidation_fee))

\* liquidate_position from the remaining collateral on (lines 183-187).
liquidate_position_priced(id, pnl, position_notional) ==
    liquidate_position_margin(id, pnl, position_notional,
        remaining_collateral(positions[id].collateral, pnl))

liquidate_position(id) ==
    /\ Callable
    /\ perpetual.exists
    /\ positions[id].exists
    /\ liquidate_position_priced(id,
           calculate_pnl(positions[id].size, positions[id].entry_price,
                         get_oracle_price).pnl,
           MulU64(I64AsU64(AbsI64(positions[id].size)), get_oracle_price))

\* imbalance_rate of update_funding_rate (lines 259-271).
imbalance_rate(long_size, short_size) ==
    IF NGt(long_size, short_size)
    THEN AsU64(DivInt(CheckedMulU128(NSub(long_size, short_size), Num(10000)),
                      NMax(long_size, Num(1))))
    ELSE AsU64(DivInt(CheckedMulU128(NSub(short_size, long_size), Num(10000)),
                      NMax(short_size, Num(1))))

\* The unsigned funding rate without the base rate.
funding_rate_magnitude_no_base(long_size, short_size) ==
    DivInt(imbalance_rate(long_size, short_size), Num(100))

\* The unsigned funding rate: base_rate + imbalance_rate / 100 (lines 276-277).
funding_rate_magnitude(long_size, short_size) ==
    AddU64(Num(5), DivInt(imbalance_rate(long_size, short_size), Num(100)))

\* The funding index left as it was by an update.
accumulate_funding_index_kept(funding_index, funding_rate) == funding_index

\* perpetual.funding_index.checked_add(funding_rate).unwrap() (line 281).
accumulate_funding_index(funding_index, funding_rate) ==
    CheckedAddU64(funding_index, funding_rate)

update_funding_rate ==
    /\ Callable
    /\ perpetual.exists
    /\ LET long_size == perpetual.total_long_positions
           short_size == perpetual.total_short_positions
           args == <<>>
           is_positive == NGt(long_size, short_size)
           funding_rate == funding_rate_magnitude(long_size, short_size)
           index == accumulate_funding_index(perpetual.funding_index, funding_rate)
           out == [funding_rate |-> funding_rate]
       IN  IF long_size = Zero /\ short_size = Zero
           THEN /\ Called("update_funding_rate", args, "Ok", <<>>, <<>>)
                /\ UNCHANGED <<overflow_checks, amount, lp_supply, pool, swap,
                               perpetual, positions>>
           ELSE IF index = Panicked
           THEN Reverted("update_funding_rate", args, "Panic",
                         <<Write("perpetual")>>, out)
           ELSE /\ perpetual' = [perpetual EXCEPT
                                   !.funding_rate = I64(~is_positive, funding_rate),
                                   !.funding_index = index,
                                   !.last_funding_time = unix_timestamp]
                /\ Called("update_funding_rate", args, "Ok",
                                  <<Write("perpetual")>>, out)
                /\ UNCHANGED <<overflow_checks, amount, lp_supply, pool, swap, positions>>

\* ------------------------------------------------------------------------
\* Initial states, inputs and specifications
\* ------------------------------------------------------------------------

Accounts ==
    {"token_a_account", "token_b_account", "user_token_a", "user_token_b",
     "user_lp_token",
     "swap_token_a", "swap_token_b", "trader_token_a", "trader_token_b",
     "quote_asset_vault", "user_quote_account", "liquidator_quote_account"}

\* Token balances before the first instruction: those named, zero elsewhere.
Funded(f) == [a \in Accounts |-> IF a \in DOMAIN f THEN f[a] ELSE Zero]

\* Either build, the token accounts funded, and each program's account
\* either not yet created or as its initialize instruction leaves it.
InitWith(fundings, pools, swaps, markets) ==
    /\ overflow_checks \in BOOLEAN
    /\ amount \in {Funded(f) : f \in fundings}
    /\ lp_supply = Zero
    /\ pool \in pools
    /\ swap \in swaps
    /\ perpetual \in markets
    /\ positions = [id \in {"position_1", "position_2"} |-> NoAccount]
    /\ last = [op |-> "none", args |-> <<>>, res |-> "Ok", events |-> <<>>,
               out |-> <<>>, pre |-> <<>>]
    /\ calls = 0

PositionIds == {"position_1", "position_2"}

FeePairs ==
    {<<Num(3), Num(1000)>>, <<Num(0), Num(1)>>, <<Num(1000), Num(1000)>>,
     <<Num(1001), Num(1000)>>, <<Num(1), Num(0)>>, <<Num(0), Num(0)>>}

\* programs/swap
SwapFundings ==
    {[swap_token_a |-> Num(1000), swap_token_b |-> Num(1000),
      trader_token_a |-> Num(200)],
     [swap_token_a |-> Dec(1, 10), swap_token_b |-> Dec(1, 10),
      trader_token_a |-> Dec(4, 6)],
     [swap_token_a |-> Dec(2, 16), swap_token_b |-> Dec(1, 6),
      trader_token_a |-> Dec(1, 10)]}

SwapAmountsIn == {Num(0), Num(100), Dec(2, 6), Dec(1, 10)}
SwapMinimumsOut == {Num(0), Num(90), Num(91)}
\* The keys ctx.bumps holds when the swap's initialize runs. The accounts of
\* that instruction are not declared in the program's source; the account
\* records the bump of its authority, so the authority is declared with seeds
\* and bump and the map holds its entry.
SwapBumpMaps == {{"swap_authority"}}

SwapDirections ==
    {<<"swap_token_a", "swap_token_b", "trader_token_a", "trader_token_b">>,
     <<"swap_token_b", "swap_token_a", "trader_token_b", "trader_token_a">>,
     <<"swap_token_a", "swap_token_b", "trader_token_a", "swap_token_b">>}

InitSwap ==
    InitWith(SwapFundings, {NoAccount},
             {NoAccount, InitializedFee(<<Num(3), Num(1000)>>)}, {NoAccount})

NextSwap ==
    \/ \E bumps \in SwapBumpMaps, fee \in FeePairs :
          initialize_swap(bumps, fee[1], fee[2])
    \/ \E d \in SwapDirections, amount_in \in SwapAmountsIn,
          minimum_amount_out \in SwapMinimumsOut :
            swap_tokens(d[1], d[2], d[3], d[4], amount_in, minimum_amount_out)

SpecSwap == InitSwap /\ [][NextSwap]_vars

\* programs/liquidity-pool
TwoP32 == NMul(Num(65536), Num(65536))
TwoP48 == NMul(TwoP32, Num(65536))

\* The third funding lets a first deposit of 2^32 and 1 mint 2^16 LP tokens:
\* 2^48 LP tokens then stand for 2^64 of the first token.
PoolFundings ==
    {[user_token_a |-> Num(500), user_token_b |-> Num(800)],
     [user_token_a |-> Num(500), user_token_b |-> Num(800),
      token_a_account |-> Num(7)],
     [user_token_a |-> TwoP32, user_token_b |-> Num(1)]}

Deposits ==
    {<<Num(100), Num(400)>>, <<Num(100), Num(100)>>, <<Num(0), Num(100)>>,
     <<Num(400), Num(400)>>, <<TwoP32, Num(1)>>}
MinLpTokens == {Num(0), Num(200), Num(201)}
LpAmounts == {Num(0), Num(50), Num(200), TwoP48}
MinAmounts ==
    {<<Num(0), Num(0)>>, <<Num(25), Num(100)>>, <<Num(26), Num(0)>>,
     <<Num(0), Num(101)>>, <<Num(1), Num(0)>>}

InitPool ==
    InitWith(PoolFundings, {NoAccount, InitializedFee(<<Num(3), Num(1000)>>)},
             {NoAccount}, {NoAccount})

NextPool ==
    \/ \E fee \in FeePairs : initialize_pool(fee[1], fee[2])
    \/ \E d \in Deposits, min_lp_tokens \in MinLpTokens :
          add_liquidity(d[1], d[2], min_lp_tokens)
    \/ \E lp_amount \in LpAmounts, m \in MinAmounts :
          remove_liquidity(lp_amount, m[1], m[2])

SpecPool == InitPool /\ [][NextPool]_vars

\* programs/swap and programs/liquidity-pool side by side
AmmFundings ==
    {[swap_token_a |-> Num(1000), swap_token_b |-> Num(1000),
      trader_token_a |-> Num(200),
      user_token_a |-> Num(500), user_token_b |-> Num(800)]}

InitAmm ==
    InitWith(AmmFundings, {NoAccount, InitializedFee(<<Num(3), Num(1000)>>)},
             {NoAccount, InitializedFee(<<Num(3), Num(1000)>>)}, {NoAccount})

NextAmm ==
    \/ \E bumps \in SwapBumpMaps, fee \in FeePairs :
          initialize_swap(bumps, fee[1], fee[2])
    \/ \E fee \in FeePairs : initialize_pool(fee[1], fee[2])
    \/ \E d \in SwapDirections, minimum_amount_out \in SwapMinimumsOut :
          swap_tokens(d[1], d[2], d[3], d[4], Num(100), minimum_amount_out)
    \/ \E d \in {<<Num(100), Num(400)>>, <<Num(100), Num(100)>>},
          min_lp_tokens \in MinLpTokens :
            add_liquidity(d[1], d[2], min_lp_tokens)

SpecAmm == InitAmm /\ [][NextAmm]_vars

\* The keys ctx.bumps can hold when initialize runs. The framework builds the
\* map from the Initialize accounts (lines 351-386), where only
\* perpetual_authority declares seeds and bump; the handler asks for the
\* entry "perpetual".
BumpMaps == {{}, {"perpetual_authority"}, {"perpetual", "perpetual_authority"}}

\* programs/perpetual-trading
MarketConfigs ==
    {<<Num(500), Num(250), Num(100)>>, <<Num(1000), Num(500), Num(50)>>}

PerpFundings ==
    {[user_quote_account |-> Num(600)],
     [user_quote_account |-> Num(20000), quote_asset_vault |-> Num(1000)],
     [user_quote_account |-> TwoP63]}

\* 3689348814741911 * 5000 = 2^64 + 3384.
WrappingSize == <<1911, 1474, 3488, 3689>>

OpenInputs ==
    {<<I64(FALSE, Num(1)), Num(250), 1, Num(1000)>>,
     <<I64(FALSE, Num(1)), Num(249), 1, Num(1000)>>,
     <<I64(FALSE, Num(1)), TwoP63, 1, Num(1000)>>,
     <<I64(FALSE, Num(1)), Num(100), 20, Num(1000)>>,
     <<I64(FALSE, Num(1)), Num(250), 20, Num(1000)>>,
     <<I64(FALSE, Num(1)), Num(105), 20, Num(1000)>>,
     <<I64(TRUE, Num(1)), Num(12), 20, Num(1000)>>,
     <<I64(TRUE, Num(1)), Num(11), 20, Num(1000)>>,
     <<I64(TRUE, Num(2)), Num(100), 20, Num(0)>>,
     <<I64(FALSE, Num(1000)), Num(12500), 20, Num(1000)>>,
     <<I64(TRUE, Num(400)), Num(5000), 20, Num(1000)>>,
     <<I64(FALSE, Num(0)), Num(100), 1, Num(1000)>>,
     <<I64(FALSE, Num(0)), Num(0), 0, Num(1000)>>,
     <<I64(FALSE, Num(1)), Num(0), 0, Num(1000)>>,
     <<I64(FALSE, Num(1)), Num(250), 0, Num(1000)>>,
     <<I64(FALSE, Num(1)), Num(250), 21, Num(1000)>>,
     <<I64(FALSE, WrappingSize), Num(169), 1, Num(1000)>>,
     <<I64(FALSE, WrappingSize), Num(50), 20, Num(1000)>>,
     <<I64(FALSE, Dec(1, 13)), Num(1), 1, Num(1000)>>,
     <<I64Min, Num(1), 20, Num(1000)>>}

MinReceiveAmounts == {Num(0), Num(101), Num(251)}

\* The position account of a new position: the first one free (the accounts
\* are interchangeable, and a closed account's address can be used again).
FreshPositionIds ==
    IF ~positions["position_1"].exists THEN {"position_1"} ELSE {"position_2"}

\* initialize creates the quote vault with the market, so only the vault of
\* an initialized market can hold tokens.
InitPerp ==
    \/ InitWith({[user_quote_account |-> Num(600)]}, {NoAccount}, {NoAccount},
                {NoAccount})
    \/ InitWith(PerpFundings, {NoAccount}, {NoAccount},
                {InitializedMarket(<<Num(500), Num(250), Num(100)>>)})
    \* the market after open_position(size 1, collateral 250, leverage 1) by a
    \* caller who held 600, the vault empty before
    \/ /\ overflow_checks \in BOOLEAN
       /\ amount = Funded([user_quote_account |-> Num(350),
                           quote_asset_vault |-> Num(250)])
       /\ lp_supply = Zero
       /\ pool = NoAccount
       /\ swap = NoAccount
       /\ perpetual = [InitializedMarket(<<Num(500), Num(250), Num(100)>>) EXCEPT
                          !.total_long_positions = Num(1),
                          !.open_interest = Num(1)]
       /\ positions = [id \in PositionIds |->
                          IF id = "position_1"
                          THEN [exists |-> TRUE, size |-> I64(FALSE, Num(1)),
                                entry_price |-> get_oracle_price,
                                collateral |-> Num(250), leverage |-> 1,
                                last_funding_index |-> Zero,
                                created_at |-> Dec(17, 8)]
                          ELSE NoAccount]
       /\ last = [op |-> "none", args |-> <<>>, res |-> "Ok", events |-> <<>>,
                  out |-> <<>>, pre |-> <<>>]
       /\ calls = 0

NextPerp ==
    \/ \E bumps \in BumpMaps, c \in MarketConfigs :
          initialize_perpetual(bumps, c[1], c[2], c[3])
    \/ \E id \in FreshPositionIds, i \in OpenInputs :
          open_position(id, i[1], i[2], i[3], i[4])
    \/ \E id \in PositionIds, min_receive_amount \in MinReceiveAmounts :
          close_position(id, min_receive_amount)
    \/ \E id \in PositionIds : liquidate_position(id)
    \/ update_funding_rate

SpecPerp == InitPerp /\ [][NextPerp]_vars

\* ------------------------------------------------------------------------
\* Properties
\* ------------------------------------------------------------------------

\* The requests the last instruction sent to the token program, in order.
Requests(events) ==
    SelectSeq(events, LAMBDA e : e.kind \in {"transfer", "mint_to", "burn"})

\* The last instruction left every account as it found it.
NothingChanged ==
    /\ amount = last.pre.amount
    /\ lp_supply = last.pre.lp_supply
    /\ pool = last.pre.pool
    /\ swap = last.pre.swap
    /\ perpetual = last.pre.perpetual
    /\ positions = last.pre.positions

\* C1: on a market that exists, after every instruction (successful or
\* failed), open_interest equals total_long_positions + total_short_positions.
C1_OpenInterestIsSumOfSides ==
    perpetual.exists =>
        perpetual.open_interest =
            NAdd(perpetual.total_long_positions, perpetual.total_short_positions)

\* A position was closed on a market that held a long and a short position.
C1_Witness ==
    /\ last.op = "close_position"
    /\ last.res = "Ok"
    /\ last.pre.perpetual.total_long_positions # Zero
    /\ last.pre.perpetual.total_short_positions # Zero
    /\ perpetual.open_interest # Zero

\* The swap quote over the naturals, with no width:
\* floor(amount_in * (fd - fn) * reserve_out
\*       / (reserve_in * fd + amount_in * (fd - fn))).
ExactQuoteDenominator(reserve_in, amount_in, fee_numerator, fee_denominator) ==
    NAdd(NMul(reserve_in, fee_denominator),
         NMul(amount_in, NSub(fee_denominator, fee_numerator)))
ExactQuote(reserve_in, reserve_out, amount_in, fee_numerator, fee_denominator) ==
    NDiv(NMul(NMul(amount_in, NSub(fee_denominator, fee_numerator)), reserve_out),
         ExactQuoteDenominator(reserve_in, amount_in, fee_numerator, fee_denominator))

\* C2: for a valid fee pair and a non-zero denominator, the quote swap_tokens
\* computes is the exact value of the formula: no multiplication wraps.
C2_QuoteIsExact ==
    (/\ last.op = "swap_tokens"
     /\ ExactQuoteDenominator(last.pre.amount[last.args.token_in_account],
            last.args.amount_in, last.pre.swap.fee_numerator,
            last.pre.swap.fee_denominator) # Zero)
    => last.out.amount_out =
           ExactQuote(last.pre.amount[last.args.token_in_account],
                      last.pre.amount[last.args.token_out_account],
                      last.args.amount_in, last.pre.swap.fee_numerator,
                      last.pre.swap.fee_denominator)

\* C3: a successful swap does not decrease the product of the two reserves.
C3_ProductNotDecreased ==
    (last.op = "swap_tokens" /\ last.res = "Ok")
    => NGe(NMul(amount[last.args.token_in_account],
                amount[last.args.token_out_account]),
           NMul(last.pre.amount[last.args.token_in_account],
                last.pre.amount[last.args.token_out_account]))

\* C4: initialize (of the pool and of the swap) succeeds exactly when
\* fee_denominator > 0 and fee_numerator < fee_denominator, and then the
\* account holds that fee; otherwise it fails with InvalidFee and the account
\* does not exist.  Every pool and swap account that exists has such a fee.
C4_InitializeIffValidFee ==
    /\ last.op \in {"initialize", "initialize_pool"} =>
          LET fee_numerator == last.args.fee_numerator
              fee_denominator == last.args.fee_denominator
              valid == NGt(fee_denominator, Zero) /\ NLt(fee_numerator, fee_denominator)
              account == IF last.op = "initialize" THEN swap ELSE pool
          IN  /\ (last.res = "Ok") <=> valid
              /\ valid => account = [exists |-> TRUE, fee_numerator |-> fee_numerator,
                                     fee_denominator |-> fee_denominator]
              /\ ~valid => last.res = "InvalidFee" /\ ~account.exists
    /\ pool.exists => /\ NGt(pool.fee_denominator, Zero)
                      /\ NLt(pool.fee_numerator, pool.fee_denominator)
    /\ swap.exists => /\ NGt(swap.fee_denominator, Zero)
                      /\ NLt(swap.fee_numerator, swap.fee_denominator)

\* The swap's initialize was rejected for a numerator equal to the
\* denominator, beside a pool that initialize_pool had accepted.
C4_Witness ==
    /\ last.op = "initialize"
    /\ last.res = "InvalidFee"
    /\ last.args.fee_numerator = last.args.fee_denominator
    /\ last.args.fee_denominator # Zero
    /\ pool.exists
    /\ ~swap.exists

\* r = floor(sqrt(n)).
IsFloorSqrt(r, n) ==
    NLe(NMul(r, r), n) /\ NGt(NMul(NAdd(r, Num(1)), NAdd(r, Num(1))), n)

\* C5: a successful add_liquidity mints floor(sqrt(amount_a * amount_b)) LP
\* tokens when the LP supply is zero (100 and 400 mint 200), else
\* min(floor(amount_a * supply / reserve_a), floor(amount_b * supply / reserve_b));
\* it moves exactly amount_a and amount_b from the caller to the reserves,
\* and adds the minted number to the caller's LP balance and to the LP supply.
C5_LpTokensMinted ==
    (last.op = "add_liquidity" /\ last.res = "Ok") =>
        LET amount_a == last.args.amount_a
            amount_b == last.args.amount_b
            supply == last.pre.lp_supply
            reserve_a == last.pre.amount["token_a_account"]
            reserve_b == last.pre.amount["token_b_account"]
            minted == last.out.lp_tokens_to_mint
        IN  /\ supply = Zero => IsFloorSqrt(minted, NMul(amount_a, amount_b))
            /\ (supply = Zero /\ amount_a = Num(100) /\ amount_b = Num(400))
                  => minted = Num(200)
            /\ supply # Zero =>
                  minted = NMin(NDiv(NMul(amount_a, supply), reserve_a),
                                NDiv(NMul(amount_b, supply), reserve_b))
            /\ amount = [last.pre.amount EXCEPT
                            !["user_token_a"] = NSub(@, amount_a),
                            !["token_a_account"] = NAdd(@, amount_a),
                            !["user_token_b"] = NSub(@, amount_b),
                            !["token_b_account"] = NAdd(@, amount_b),
                            !["user_lp_token"] = NAdd(@, minted)]
            /\ lp_supply = NAdd(supply, minted)

\* A deposit of 100 and 100 into a pool whose reserves stand 1 to 4 (or
\* 107 to 400) with 200 LP tokens: the second token's share, 50, is minted.
C5_Witness ==
    /\ last.op = "add_liquidity"
    /\ last.res = "Ok"
    /\ last.pre.lp_supply = Num(200)
    /\ last.args.amount_a = Num(100)
    /\ last.args.amount_b = Num(100)
    /\ last.out.lp_tokens_to_mint = Num(50)
    /\ lp_supply = Num(250)

\* C6: remove_liquidity with an LP supply of zero fails with
\* InsufficientLiquidity and requests no burn and no transfer.
C6_EmptyPoolFailsInsufficientLiquidity ==
    (last.op = "remove_liquidity" /\ last.pre.lp_supply = Zero) =>
        /\ last.res = "InsufficientLiquidity"
        /\ Requests(last.events) = <<>>
        /\ NothingChanged

\* C7: with an LP supply above zero and amount_a = floor(lp_amount * reserve_a
\* / supply), amount_b = floor(lp_amount * reserve_b / supply): when one of
\* them is below its minimum remove_liquidity fails with SlippageExceeded,
\* requesting nothing and changing nothing; otherwise it requests the burn of
\* lp_amount and then the transfers of amount_a and of amount_b, in this
\* order (up to a request the token program refuses), and on success the
\* balances and the LP supply have changed by exactly these amounts.
C7_RemoveLiquidityAmounts ==
    (last.op = "remove_liquidity" /\ last.pre.lp_supply # Zero) =>
        LET lp_amount == last.args.lp_amount
            supply == last.pre.lp_supply
            amount_a == NDiv(NMul(lp_amount, last.pre.amount["token_a_account"]), supply)
            amount_b == NDiv(NMul(lp_amount, last.pre.amount["token_b_account"]), supply)
            slipped == \/ NLt(amount_a, last.args.min_amount_a)
                       \/ NLt(amount_b, last.args.min_amount_b)
            asked == <<Req("burn", "user_lp_token", "lp_mint", lp_amount),
                       Req("transfer", "token_a_account", "user_token_a", amount_a),
                       Req("transfer", "token_b_account", "user_token_b", amount_b)>>
            sent == Requests(last.events)
        IN  /\ slipped => /\ last.res = "SlippageExceeded"
                          /\ sent = <<>>
                          /\ NothingChanged
            /\ ~slipped => /\ last.res \in {"Ok", "InsufficientFunds", "Overflow"}
                           /\ Len(sent) \in 1..3
                           /\ sent = SubSeq(asked, 1, Len(sent))
            /\ last.res = "Ok" =>
                  /\ sent = asked
                  /\ lp_supply = NSub(supply, lp_amount)
                  /\ amount = [last.pre.amount EXCEPT
                                  !["user_lp_token"] = NSub(@, lp_amount),
                                  !["token_a_account"] = NSub(@, amount_a),
                                  !["user_token_a"] = NAdd(@, amount_a),
                                  !["token_b_account"] = NSub(@, amount_b),
                                  !["user_token_b"] = NAdd(@, amount_b)]

\* The last instruction failed with SlippageExceeded before any request to
\* the token program, and changed nothing.
SlippedBeforeAnyRequest ==
    /\ last.res = "SlippageExceeded"
    /\ Requests(last.events) = <<>>
    /\ NothingChanged

\* C8: add_liquidity whose computed LP tokens are below min_lp_tokens, and
\* swap_tokens whose computed amount_out is below minimum_amount_out, fail
\* with SlippageExceeded; no transfer and no mint is requested, and the
\* reserves, the LP supply and the caller's balances are unchanged.
C8_SlippageFailsBeforeRequests ==
    /\ (/\ last.op = "add_liquidity"
        /\ last.out.lp_tokens_to_mint # Panicked
        /\ NLt(last.out.lp_tokens_to_mint, last.args.min_lp_tokens))
       => SlippedBeforeAnyRequest
    /\ (/\ last.op = "swap_tokens"
        /\ last.out.amount_out # Panicked
        /\ NLt(last.out.amount_out, last.args.minimum_amount_out))
       => SlippedBeforeAnyRequest

\* A swap of 100 that quotes 90 against a minimum of 91, on a pool where a
\* deposit had minted LP tokens before.
C8_Witness ==
    /\ last.op = "swap_tokens"
    /\ last.out.amount_out = Num(90)
    /\ last.args.minimum_amount_out = Num(91)
    /\ last.res = "SlippageExceeded"
    /\ lp_supply # Zero

\* C9: open_position fails with InvalidSize when size is 0, else with
\* InvalidCollateral when collateral is 0, else with InvalidLeverage unless
\* 1 <= leverage <= 20 (1 and 20 pass these checks, 0 and 21 do not); on these
\* failures nothing is transferred, no position is created and the market is
\* unchanged.
C9_ArgumentChecks ==
    last.op = "open_position" =>
        LET size == last.args.size
            collateral == last.args.collateral
            leverage == last.args.leverage
            rejected == last.res \in {"InvalidSize", "InvalidCollateral",
                                      "InvalidLeverage"}
        IN  /\ size.mag = Zero => last.res = "InvalidSize"
            /\ (size.mag # Zero /\ collateral = Zero) => last.res = "InvalidCollateral"
            /\ (size.mag # Zero /\ collateral # Zero /\ ~(1 <= leverage /\ leverage <= 20))
                  => last.res = "InvalidLeverage"
            /\ (size.mag # Zero /\ collateral # Zero /\ 1 <= leverage /\ leverage <= 20)
                  => ~rejected
            /\ rejected => Requests(last.events) = <<>> /\ NothingChanged

\* A leverage of 21 was rejected on a market that holds a position opened
\* with a leverage of 20.
C9_Witness ==
    /\ last.op = "open_position"
    /\ last.args.leverage = 21
    /\ last.res = "InvalidLeverage"
    /\ \E id \in PositionIds : positions[id].exists /\ positions[id].leverage = 20

\* floor(floor(|size| * price * initial_margin_ratio / 10000) / leverage),
\* over the naturals.
RequiredCollateral(size, price, initial_margin_ratio, leverage) ==
    NDiv(NDiv(NMul(NMul(size.mag, price), initial_margin_ratio), Num(10000)),
         Num(leverage))

\* C10: open_position with a non-zero size and collateral and a leverage in
\* 1..20 fails with InsufficientCollateral exactly when collateral is below
\* floor(floor(|size| * price * initial_margin_ratio / 10000) / leverage);
\* every position that exists holds at least that much collateral for its
\* entry price.
C10_InsufficientCollateralIff ==
    /\ (/\ last.op = "open_position"
        /\ last.args.size.mag # Zero
        /\ last.args.collateral # Zero
        /\ 1 <= last.args.leverage /\ last.args.leverage <= 20)
       => ((last.res = "InsufficientCollateral")
           <=> NLt(last.args.collateral,
                   RequiredCollateral(last.args.size, get_oracle_price,
                       last.pre.perpetual.initial_margin_ratio, last.args.leverage)))
    /\ \A id \in PositionIds :
          positions[id].exists =>
              NGe(positions[id].collateral,
                  RequiredCollateral(positions[id].size, positions[id].entry_price,
                      perpetual.initial_margin_ratio, positions[id].leverage))

\* C11: an open_position that passed the argument checks and the collateral
\* check, and so reached the price impact check, has computed price_impact =
\* min(floor(|size| * 10000 / max(open_interest, 1)), 1000) (taken here over
\* the naturals), also when open_interest is 0, and fails with
\* PriceImpactTooHigh exactly when that value exceeds max_price_impact.
C11_PriceImpact ==
    (/\ last.op = "open_position"
     /\ last.res \in {"PriceImpactTooHigh", "InsufficientFunds", "Overflow", "Ok"})
    => LET open_interest == last.pre.perpetual.open_interest
           impact == NMin(NDiv(NMul(last.args.size.mag, Num(10000)),
                               NMax(open_interest, Num(1))),
                          Num(1000))
       IN  /\ last.out.price_impact = impact
           /\ (last.res = "PriceImpactTooHigh")
                  <=> NGt(impact, last.args.max_price_impact)

\* C12: a successful open_position has sent one transfer of `collateral` from
\* the caller to the quote vault, created the position with the given size,
\* collateral and leverage, the oracle price as entry_price and the market's
\* funding_index as last_funding_index, added |size| to the total of the
\* matching side only, and added |size| to open_interest.
C12_OpenEffects ==
    (last.op = "open_position" /\ last.res = "Ok") =>
        LET a == last.args
            m == last.pre.perpetual
            p == positions[a.id]
        IN  /\ Requests(last.events) =
                   <<Req("transfer", "user_quote_account", "quote_asset_vault",
                         a.collateral)>>
            /\ amount = [last.pre.amount EXCEPT
                            !["user_quote_account"] = NSub(@, a.collateral),
                            !["quote_asset_vault"] = NAdd(@, a.collateral)]
            /\ ~last.pre.positions[a.id].exists
            /\ p.exists
            /\ p.size = a.size
            /\ p.collateral = a.collateral
            /\ p.leverage = a.leverage
            /\ p.entry_price = get_oracle_price
            /\ p.last_funding_index = m.funding_index
            /\ \A id \in PositionIds \ {a.id} : positions[id] = last.pre.positions[id]
            /\ perpetual =
                   IF IsLong(a.size)
                   THEN [m EXCEPT !.total_long_positions = NAdd(@, a.size.mag),
                                  !.open_interest = NAdd(@, a.size.mag)]
                   ELSE [m EXCEPT !.total_short_positions = NAdd(@, a.size.mag),
                                  !.open_interest = NAdd(@, a.size.mag)]

\* A short position was opened on a market that held a long position and
\* whose funding index had moved.
C12_Witness ==
    /\ last.op = "open_position"
    /\ last.res = "Ok"
    /\ last.args.size.neg
    /\ last.pre.perpetual.total_long_positions # Zero
    /\ last.pre.perpetual.funding_index # Zero
    /\ positions[last.args.id].last_funding_index = last.pre.perpetual.funding_index

\* C13: a close_position that reaches the slippage check has computed this
\* settlement (taken here over the naturals): from collateral, with
\* pnl_magnitude = |exit_price - entry_price| * |size|, plus pnl_magnitude in
\* profit (long and exit >= entry, short and entry >= exit), else minus it
\* when it is at most the settlement, else 0; then, with funding_magnitude =
\* |funding_index - last_funding_index|, plus it when received (long and
\* index decreased, short and index increased), else minus it when it is at
\* most the settlement, else unchanged. A successful close pays exactly that
\* from the quote vault to the caller, with no transfer when it is 0.
C13_CloseSettlement ==
    (/\ last.op = "close_position"
     /\ last.res \in {"Ok", "SlippageExceeded", "InsufficientFunds", "Overflow"})
    => LET p == last.pre.positions[last.args.id]
           long == IsLong(p.size)
           short == p.size.neg
           entry == p.entry_price
           exit == get_oracle_price
           index == last.pre.perpetual.funding_index
           pnl_magnitude ==
               NMul(IF NGe(exit, entry) THEN NSub(exit, entry) ELSE NSub(entry, exit),
                    p.size.mag)
           in_profit == (long /\ NGe(exit, entry)) \/ (short /\ NGe(entry, exit))
           after_pnl ==
               IF in_profit THEN NAdd(p.collateral, pnl_magnitude)
               ELSE IF NLe(pnl_magnitude, p.collateral)
               THEN NSub(p.collateral, pnl_magnitude)
               ELSE Zero
           funding_magnitude ==
               IF NGe(index, p.last_funding_index)
               THEN NSub(index, p.last_funding_index)
               ELSE NSub(p.last_funding_index, index)
           received == \/ (long /\ NLt(index, p.last_funding_index))
                       \/ (short /\ NGt(index, p.last_funding_index))
           settlement ==
               IF received THEN NAdd(after_pnl, funding_magnitude)
               ELSE IF NLe(funding_magnitude, after_pnl)
               THEN NSub(after_pnl, funding_magnitude)
               ELSE after_pnl
       IN  /\ last.out.settlement_amount = settlement
           /\ last.res = "Ok" =>
                 /\ Requests(last.events) =
                        IF settlement = Zero THEN <<>>
                        ELSE <<Req("transfer", "quote_asset_vault",
                                   "user_quote_account", settlement)>>
                 /\ amount = [last.pre.amount EXCEPT
                                 !["quote_asset_vault"] = NSub(@, settlement),
                                 !["user_quote_account"] = NAdd(@, settlement)]

\* A long position with collateral 100 was closed after the funding index
\* had moved by 105: the payment exceeded the settlement, which stayed 100,
\* and 100 was paid out.
C13_Witness ==
    /\ last.op = "close_position"
    /\ last.res = "Ok"
    /\ last.out.funding_payment = Num(105)
    /\ ~last.out.is_received
    /\ last.out.settlement_amount = Num(100)
    /\ amount["quote_asset_vault"] = NSub(last.pre.amount["quote_asset_vault"], Num(100))

\* C14: a close_position whose computed settlement is below min_receive
\* fails with SlippageExceeded; the position still exists unchanged, the
\* market (total_long, total_short, open_interest) is unchanged and no
\* transfer out of the quote vault is requested.
C14_CloseSlippage ==
    (/\ last.op = "close_position"
     /\ last.out.settlement_amount # Panicked
     /\ NLt(last.out.settlement_amount, last.args.min_receive_amount))
    => /\ last.res = "SlippageExceeded"
       /\ Requests(last.events) = <<>>
       /\ positions[last.args.id].exists
       /\ NothingChanged

\* A close asking for at least 251 of a position that settles at 250 failed
\* with SlippageExceeded on a market that holds the position.
C14_Witness ==
    /\ last.op = "close_position"
    /\ last.res = "SlippageExceeded"
    /\ last.out.settlement_amount = Num(250)
    /\ last.args.min_receive_amount = Num(251)
    /\ perpetual.open_interest # Zero

\* C15: in every step, a position account that exists changes only by being
\* deleted, and only by a successful close_position or liquidate_position on
\* it; that step subtracts its |size| from the total of its side and from
\* open_interest, and no other step lowers an aggregate; close_position and
\* liquidate_position succeed only on a position that exists, so never a
\* second time; an account that does not exist comes to hold a position only
\* when a successful open_position creates a new one there (a deleted
\* position does not come back).
C15_OneTerminalTransition ==
    [][/\ \A id \in PositionIds :
            LET before == positions[id]
                after == positions'[id]
                terminal == /\ last'.op \in {"close_position", "liquidate_position"}
                            /\ last'.res = "Ok"
                            /\ last'.args.id = id
            IN  /\ terminal =>
                      /\ before.exists
                      /\ ~after.exists
                      /\ perpetual' =
                             IF IsLong(before.size)
                             THEN [perpetual EXCEPT
                                      !.total_long_positions = NSub(@, before.size.mag),
                                      !.open_interest = NSub(@, before.size.mag)]
                             ELSE [perpetual EXCEPT
                                      !.total_short_positions = NSub(@, before.size.mag),
                                      !.open_interest = NSub(@, before.size.mag)]
                /\ (before.exists /\ after # before) => terminal
                /\ (~before.exists /\ after.exists) =>
                      /\ last'.op = "open_position"
                      /\ last'.res = "Ok"
                      /\ last'.args.id = id
                      /\ after.created_at = unix_timestamp
       /\ (/\ perpetual.exists
           /\ \/ NLt(perpetual'.total_long_positions, perpetual.total_long_positions)
              \/ NLt(perpetual'.total_short_positions, perpetual.total_short_positions)
              \/ NLt(perpetual'.open_interest, perpetual.open_interest))
          => /\ last'.op \in {"close_position", "liquidate_position"}
             /\ last'.res = "Ok"
      ]_vars

\* A position was liquidated and deleted on a market that still holds
\* another position.
C15_Witness ==
    /\ last.op = "liquidate_position"
    /\ last.res = "Ok"
    /\ last.pre.positions[last.args.id].exists
    /\ ~positions[last.args.id].exists
    /\ \E id \in PositionIds : positions[id].exists
    /\ perpetual.open_interest # Zero

\* C16: with remaining = max(collateral - |current_price - entry_price| *
\* |size|, 0), whether or not the position is in profit, and margin_ratio =
\* floor(remaining * 10000 / (|size| * current_price)), both taken here over
\* the naturals, liquidate_position succeeds only when margin_ratio <
\* maintenance_margin_ratio; when margin_ratio >= maintenance_margin_ratio it
\* fails with CannotLiquidate, requests no transfer and leaves the position,
\* the market and the vault unchanged.
C16_LiquidationEligibility ==
    last.op = "liquidate_position" =>
        LET p == last.pre.positions[last.args.id]
            price == get_oracle_price
            pnl_magnitude ==
                NMul(IF NGe(price, p.entry_price) THEN NSub(price, p.entry_price)
                                                  ELSE NSub(p.entry_price, price),
                     p.size.mag)
            remaining == IF NLe(pnl_magnitude, p.collateral)
                         THEN NSub(p.collateral, pnl_magnitude) ELSE Zero
            ratio == NDiv(NMul(remaining, Num(10000)), NMul(p.size.mag, price))
            maintenance == last.pre.perpetual.maintenance_margin_ratio
        IN  /\ last.res = "Ok" => NLt(ratio, maintenance)
            /\ NGe(ratio, maintenance) =>
                  /\ last.res = "CannotLiquidate"
                  /\ Requests(last.events) = <<>>
                  /\ NothingChanged

\* C17: a liquidate_position that passed the margin check, with
\* liquidation_fee = floor(|size| * current_price * liquidation_fee_bps /
\* 10000) taken over the naturals, fails with
\* InsufficientCollateralForLiquidation exactly when remaining <
\* liquidation_fee, changing nothing; on success the only request is the
\* transfer of liquidation_fee from the quote vault to the liquidator, the
\* vault has decreased by exactly that, the side total and open_interest
\* have decreased by |size|, the position is deleted, and the fee is at most
\* the position's collateral.
C17_LiquidationFee ==
    (/\ last.op = "liquidate_position"
     /\ last.res \in {"InsufficientCollateralForLiquidation", "InsufficientFunds", "Overflow", "Ok"})
    => LET p == last.pre.positions[last.args.id]
           m == last.pre.perpetual
           price == get_oracle_price
           pnl_magnitude ==
               NMul(IF NGe(price, p.entry_price) THEN NSub(price, p.entry_price)
                                                 ELSE NSub(p.entry_price, price),
                    p.size.mag)
           remaining == IF NLe(pnl_magnitude, p.collateral)
                        THEN NSub(p.collateral, pnl_magnitude) ELSE Zero
           fee == NDiv(NMul(NMul(p.size.mag, price), m.liquidation_fee), Num(10000))
       IN  /\ (last.res = "InsufficientCollateralForLiquidation") <=> NLt(remaining, fee)
           /\ last.res = "InsufficientCollateralForLiquidation" =>
                 Requests(last.events) = <<>> /\ NothingChanged
           /\ last.res = "Ok" =>
                 /\ Requests(last.events) =
                        <<Req("transfer", "quote_asset_vault",
                              "liquidator_quote_account", fee)>>
                 /\ amount = [last.pre.amount EXCEPT
                                 !["quote_asset_vault"] = NSub(@, fee),
                                 !["liquidator_quote_account"] = NAdd(@, fee)]
                 /\ NLe(fee, p.collateral)
                 /\ ~positions[last.args.id].exists
                 /\ perpetual =
                        IF IsLong(p.size)
                        THEN [m EXCEPT !.total_long_positions = NSub(@, p.size.mag),
                                       !.open_interest = NSub(@, p.size.mag)]
                        ELSE [m EXCEPT !.total_short_positions = NSub(@, p.size.mag),
                                       !.open_interest = NSub(@, p.size.mag)]

\* C18: update_funding_rate succeeds; it changes nothing when total_long and
\* total_short are both 0; otherwise, with imbalance_rate =
\* floor(|total_long - total_short| * 10000 / max(larger side, 1)) and
\* magnitude = 5 + floor(imbalance_rate / 100), it sets funding_rate to
\* +magnitude when total_long > total_short and to -magnitude otherwise, adds
\* magnitude to funding_index, sets last_funding_time to the current time and
\* changes nothing else.
C18_FundingRateUpdate ==
    last.op = "update_funding_rate" =>
        LET m == last.pre.perpetual
            long == m.total_long_positions
            short == m.total_short_positions
            larger == NMax(long, short)
            imbalance == NSub(larger, NMin(long, short))
            rate == NDiv(NMul(imbalance, Num(10000)), NMax(larger, Num(1)))
            magnitude == NAdd(Num(5), NDiv(rate, Num(100)))
            now == NAdd(Dec(17, 8), Num(calls - 1))
        IN  /\ last.res = "Ok"
            /\ amount = last.pre.amount
            /\ positions = last.pre.positions
            /\ perpetual =
                   IF long = Zero /\ short = Zero THEN m
                   ELSE [m EXCEPT !.funding_rate = [neg |-> ~NGt(long, short),
                                                    mag |-> magnitude],
                                  !.funding_index = NAdd(@, magnitude),
                                  !.last_funding_time = now]

\* With total_long = 1000 and total_short = 400 the update set funding_rate
\* to +65 and added 65 to funding_index.
C18_Witness ==
    /\ last.op = "update_funding_rate"
    /\ last.pre.perpetual.total_long_positions = Num(1000)
    /\ last.pre.perpetual.total_short_positions = Num(400)
    /\ perpetual.funding_rate = [neg |-> FALSE, mag |-> Num(65)]
    /\ perpetual.funding_index = NAdd(last.pre.perpetual.funding_index, Num(65))

\* C19: in every step on a market, funding_index does not decrease; it
\* changes only in an update_funding_rate; and every successful
\* update_funding_rate on a market with a non-zero total_long or total_short
\* increases it by the magnitude of the new funding_rate, which is at least
\* 5, whatever the sign of that rate.
C19_FundingIndexMonotonic ==
    [][(perpetual.exists /\ perpetual'.exists) =>
          LET before == perpetual.funding_index
              after == perpetual'.funding_index
          IN  /\ NGe(after, before)
              /\ after # before => last'.op = "update_funding_rate"
              /\ (/\ last'.op = "update_funding_rate"
                  /\ last'.res = "Ok"
                  /\ \/ perpetual.total_long_positions # Zero
                     \/ perpetual.total_short_positions # Zero)
                 => /\ NSub(after, before) = perpetual'.funding_rate.mag
                    /\ NGe(NSub(after, before), Num(5))
      ]_vars

\* The funding index, 105 after a first update, went up by 105 again in an
\* update that set a negative funding_rate.
C19_Witness ==
    /\ last.op = "update_funding_rate"
    /\ last.pre.perpetual.funding_index = Num(105)
    /\ perpetual.funding_rate = [neg |-> TRUE, mag |-> Num(105)]
    /\ perpetual.funding_index = Num(210)

\* C20: in every instruction, every validation check is evaluated before the
\* first write to an account and before the first request to the token
\* program (transfer, mint_to, burn): no write and no request precedes a
\* check.
C20_ValidationBeforeEffects ==
    \A i, j \in 1..Len(last.events) :
        (i < j /\ last.events[i].kind # "check") => last.events[j].kind # "check"

\* C21: the transfers, mints and burns an instruction requested are replayed
\* here, in order, on the balances and the LP supply from before the
\* instruction: a transfer or burn fails when its source holds less than the
\* amount, a transfer to another account or a mint fails when the sum passes
\* u64::MAX. When one of them fails, the instruction ends with that failure
\* and not Ok, it requests nothing after the failed request, and all
\* balances, the LP supply, the pool, the market and the positions equal
\* their values before the instruction, the effect of the requests that had
\* already succeeded included; and an instruction ends with a failure of
\* the token program only when a request did fail.
C21_LedgerFailureRevertsAll ==
    last.op # "none" =>
        LET reqs == Requests(last.events)
            Fails(am, supply, r) ==
                IF r.kind = "transfer"
                THEN \/ NLt(am[r.from], r.n)
                     \/ (r.from # r.to /\ NGt(NAdd(am[r.to], r.n), U64Max))
                ELSE IF r.kind = "mint_to" THEN NGt(NAdd(supply, r.n), U64Max)
                ELSE NLt(am[r.from], r.n)
            Moved(am, r) ==
                IF r.kind = "transfer"
                THEN IF r.from = r.to THEN am
                     ELSE [am EXCEPT ![r.from] = NSub(@, r.n), ![r.to] = NAdd(@, r.n)]
                ELSE IF r.kind = "mint_to" THEN [am EXCEPT ![r.to] = NAdd(@, r.n)]
                ELSE [am EXCEPT ![r.from] = NSub(@, r.n)]
            Supplied(supply, r) ==
                IF r.kind = "mint_to" THEN NAdd(supply, r.n)
                ELSE IF r.kind = "burn" THEN NSub(supply, r.n)
                ELSE supply
            RECURSIVE FirstFailed(_, _, _)
            FirstFailed(am, supply, i) ==
                IF i > Len(reqs) THEN 0
                ELSE IF Fails(am, supply, reqs[i]) THEN i
                ELSE FirstFailed(Moved(am, reqs[i]), Supplied(supply, reqs[i]), i + 1)
            failed == FirstFailed(last.pre.amount, last.pre.lp_supply, 1)
        IN  /\ failed # 0 =>
                  /\ last.res \in {"InsufficientFunds", "Overflow"}
                  /\ failed = Len(reqs)
                  /\ NothingChanged
            /\ last.res \in {"InsufficientFunds", "Overflow"} => failed # 0

\* The second deposit transfer of an add_liquidity failed after the first
\* one, of a non-zero amount, had succeeded.
C21_Witness ==
    /\ last.op = "add_liquidity"
    /\ last.res = "InsufficientFunds"
    /\ Len(Requests(last.events)) = 2
    /\ last.args.amount_a # Zero
    /\ NGe(last.pre.amount["user_token_a"], last.args.amount_a)
    /\ amount = last.pre.amount

\* C22: whenever the LP tokens to mint, a withdrawal amount, the position
\* notional |size| * price or the PnL magnitude |price difference| * |size|,
\* taken over the naturals, does not fit in 64 bits, the instruction fails
\* with an arithmetic error and changes nothing.
C22_NoWraparound ==
    LET fits(n) == NLt(n, TwoP64)
        failed == last.res = "Panic" /\ NothingChanged
        pre == last.pre
        position == pre.positions[last.args.id]
        difference(p) == IF NGe(get_oracle_price, p.entry_price)
                         THEN NSub(get_oracle_price, p.entry_price)
                         ELSE NSub(p.entry_price, get_oracle_price)
    IN  /\ (/\ last.op = "add_liquidity"
            /\ pre.lp_supply # Zero
            /\ pre.amount["token_a_account"] # Zero
            /\ pre.amount["token_b_account"] # Zero
            /\ ~fits(NMin(NDiv(NMul(last.args.amount_a, pre.lp_supply),
                               pre.amount["token_a_account"]),
                          NDiv(NMul(last.args.amount_b, pre.lp_supply),
                               pre.amount["token_b_account"]))))
           => failed
        /\ (/\ last.op = "remove_liquidity"
            /\ pre.lp_supply # Zero
            /\ \/ ~fits(NDiv(NMul(last.args.lp_amount, pre.amount["token_a_account"]),
                             pre.lp_supply))
               \/ ~fits(NDiv(NMul(last.args.lp_amount, pre.amount["token_b_account"]),
                             pre.lp_supply)))
           => failed
        /\ (/\ last.op = "open_position"
            /\ last.res \notin {"InvalidSize", "InvalidCollateral", "InvalidLeverage"}
            /\ ~fits(NMul(last.args.size.mag, get_oracle_price)))
           => failed
        /\ (/\ last.op \in {"close_position", "liquidate_position"}
            /\ ~fits(NMul(difference(position), position.size.mag)))
           => failed
        /\ (/\ last.op = "liquidate_position"
            /\ ~fits(NMul(position.size.mag, get_oracle_price)))
           => failed

\* C23: on a market that exists, total_long_positions is the sum of size
\* over the open positions with size > 0 and total_short_positions is the
\* sum of |size| over the open positions with size < 0; so the total of its
\* side and open_interest are at least the |size| of every open position,
\* and the subtractions of close_position and liquidate_position do not
\* underflow.
C23_TotalsAreSums ==
    perpetual.exists =>
        LET RECURSIVE Sum(_, _)
            Sum(ids, long) ==
                IF ids = {} THEN Zero
                ELSE LET id == CHOOSE x \in ids : TRUE
                         p == positions[id]
                     IN  NAdd(IF p.exists /\ IsLong(p.size) = long THEN p.size.mag
                                                                 ELSE Zero,
                              Sum(ids \ {id}, long))
        IN  /\ perpetual.total_long_positions = Sum(PositionIds, TRUE)
            /\ perpetual.total_short_positions = Sum(PositionIds, FALSE)
            /\ \A id \in PositionIds :
                  positions[id].exists =>
                      /\ NGe(IF IsLong(positions[id].size)
                             THEN perpetual.total_long_positions
                             ELSE perpetual.total_short_positions,
                             positions[id].size.mag)
                      /\ NGe(perpetual.open_interest, positions[id].size.mag)

\* A long position was closed, and the totals are those of the short position
\* of size 2 that stays open.
C23_Witness ==
    /\ last.op = "close_position"
    /\ last.res = "Ok"
    /\ IsLong(last.pre.positions[last.args.id].size)
    /\ perpetual.total_long_positions = Zero
    /\ perpetual.total_short_positions = Num(2)
    /\ \E id \in PositionIds : positions[id].exists /\ positions[id].size.neg

\* C24: on a market that exists, the balance of the quote vault is at least
\* the sum of the collateral of the open positions.
C24_VaultCoversCollateral ==
    perpetual.exists =>
        LET RECURSIVE Collateral(_)
            Collateral(ids) ==
                IF ids = {} THEN Zero
                ELSE LET id == CHOOSE x \in ids : TRUE
                     IN  NAdd(IF positions[id].exists THEN positions[id].collateral
                                                      ELSE Zero,
                              Collateral(ids \ {id}))
        IN  NGe(amount["quote_asset_vault"], Collateral(PositionIds))

\* C25: every open position has last_funding_index <= the market's
\* funding_index; and in a close_position that reaches the slippage check the
\* funding magnitude is funding_index - last_funding_index, a long position
\* does not receive it (it pays it when it is at most the settlement, else
\* nothing) and a short position does not pay it (it receives it exactly
\* when the index has moved since entry).
C25_FundingDirection ==
    /\ perpetual.exists =>
           \A id \in PositionIds :
               positions[id].exists =>
                   NLe(positions[id].last_funding_index, perpetual.funding_index)
    /\ (/\ last.op = "close_position"
        /\ last.res \in {"Ok", "SlippageExceeded", "InsufficientFunds", "Overflow"})
       => LET p == last.pre.positions[last.args.id]
              index == last.pre.perpetual.funding_index
              moved == NSub(index, p.last_funding_index)
              before ==
                  IF last.out.is_profit THEN NAdd(p.collateral, last.out.pnl)
                  ELSE IF NLe(last.out.pnl, p.collateral)
                  THEN NSub(p.collateral, last.out.pnl)
                  ELSE Zero
          IN  /\ last.out.funding_payment = moved
              /\ IsLong(p.size) =>
                     /\ ~last.out.is_received
                     /\ last.out.settlement_amount =
                            IF NLe(moved, before) THEN NSub(before, moved)
                            ELSE before
              /\ p.size.neg =>
                     /\ last.out.is_received = (moved # Zero)
                     /\ last.out.settlement_amount = NAdd(before, moved)

\* A long position with collateral 250 was closed after the index had moved
\* by 105 since its entry: it paid 105 and 145 was settled.
C25_Witness ==
    /\ last.op = "close_position"
    /\ last.res = "Ok"
    /\ IsLong(last.pre.positions[last.args.id].size)
    /\ last.pre.positions[last.args.id].last_funding_index = Zero
    /\ last.pre.perpetual.funding_index = Num(105)
    /\ ~last.out.is_received
    /\ last.out.settlement_amount = Num(145)

\* C26: on a market with maintenance_margin_ratio < initial_margin_ratio, a
\* liquidate_position that directly follows the successful open_position of
\* the same position, the oracle price still equal to the entry price, fails
\* with CannotLiquidate.
C26_NoLiquidationAtEntry ==
    [][(/\ last.op = "open_position"
        /\ last.res = "Ok"
        /\ last'.op = "liquidate_position"
        /\ calls' = calls + 1
        /\ last'.args.id = last.args.id
        /\ positions[last.args.id].entry_price = get_oracle_price
        /\ NLt(perpetual.maintenance_margin_ratio, perpetual.initial_margin_ratio))
       => last'.res = "CannotLiquidate"]_vars

\* C27: a liquidate_position on an open position whose computed margin_ratio
\* is below maintenance_margin_ratio, the quote vault holding at least the
\* liquidation fee, succeeds and removes the position.
C27_UnderMarginedIsLiquidated ==
    (/\ last.op = "liquidate_position"
     /\ last.out.margin_ratio # Panicked
     /\ NLt(last.out.margin_ratio, last.pre.perpetual.maintenance_margin_ratio)
     /\ last.out.liquidation_fee # Panicked
     /\ NGe(last.pre.amount["quote_asset_vault"], last.out.liquidation_fee))
    => /\ last.res = "Ok"
       /\ ~positions[last.args.id].exists

\* C28: on a pool with LP supply > 0 and both reserves > 0, when a
\* successful add_liquidity(amount_a, amount_b) is directly followed by a
\* successful remove_liquidity of exactly the LP tokens it minted, the
\* amounts paid out are at most the amounts deposited: out_a <= amount_a and
\* out_b <= amount_b.
C28_AddRemoveRoundTrip ==
    [][(/\ last.op = "add_liquidity"
        /\ last.res = "Ok"
        /\ last.pre.lp_supply # Zero
        /\ last.pre.amount["token_a_account"] # Zero
        /\ last.pre.amount["token_b_account"] # Zero
        /\ last'.op = "remove_liquidity"
        /\ calls' = calls + 1
        /\ last'.res = "Ok"
        /\ last'.args.lp_amount = last.out.lp_tokens_to_mint)
       => /\ NLe(last'.out.token_a_amount, last.args.amount_a)
          /\ NLe(last'.out.token_b_amount, last.args.amount_b)]_vars

\* After a deposit of (100, 100) into a pool holding (100, 400) with LP
\* supply 200 had minted 50, the removal of 50 of the supply 250 paid out
\* (40, 100).
C28_Witness ==
    /\ last.op = "remove_liquidity"
    /\ last.res = "Ok"
    /\ last.args.lp_amount = Num(50)
    /\ last.pre.lp_supply = Num(250)
    /\ last.pre.amount["token_a_account"] = Num(200)
    /\ last.pre.amount["token_b_account"] = Num(500)
    /\ last.out.token_a_amount = Num(40)
    /\ last.out.token_b_amount = Num(100)

\* C29: no instruction changes the fee_numerator or fee_denominator of a pool
\* or swap that exists, or the initial_margin_ratio,
\* maintenance_margin_ratio or liquidation_fee of a market that exists;
\* open_position, close_position and liquidate_position leave the market's
\* funding_rate, funding_index and last_funding_time unchanged;
\* update_funding_rate leaves total_long, total_short, open_interest, the
\* quote vault and every position unchanged.
C29_FrameConditions ==
    [][/\ pool.exists =>
              /\ pool'.exists
              /\ pool'.fee_numerator = pool.fee_numerator
              /\ pool'.fee_denominator = pool.fee_denominator
       /\ swap.exists =>
              /\ swap'.exists
              /\ swap'.fee_numerator = swap.fee_numerator
              /\ swap'.fee_denominator = swap.fee_denominator
       /\ perpetual.exists =>
              /\ perpetual'.exists
              /\ perpetual'.initial_margin_ratio = perpetual.initial_margin_ratio
              /\ perpetual'.maintenance_margin_ratio = perpetual.maintenance_margin_ratio
              /\ perpetual'.liquidation_fee = perpetual.liquidation_fee
       /\ (/\ calls' = calls + 1
           /\ last'.op \in {"open_position", "close_position", "liquidate_position"})
          => /\ perpetual'.funding_rate = perpetual.funding_rate
             /\ perpetual'.funding_index = perpetual.funding_index
             /\ perpetual'.last_funding_time = perpetual.last_funding_time
       /\ (/\ calls' = calls + 1
           /\ last'.op = "update_funding_rate")
          => /\ perpetual'.total_long_positions = perpetual.total_long_positions
             /\ perpetual'.total_short_positions = perpetual.total_short_positions
             /\ perpetual'.open_interest = perpetual.open_interest
             /\ amount'["quote_asset_vault"] = amount["quote_asset_vault"]
             /\ positions' = positions]_vars

\* A short position was closed on a market whose funding index had moved to
\* 5 at time 1700000001: the close removed the position and its size from
\* the aggregates and left the rate, the index, the funding time and the
\* margin configuration as they were.
C29_Witness ==
    /\ last.op = "close_position"
    /\ last.res = "Ok"
    /\ ~positions[last.args.id].exists
    /\ perpetual.open_interest # last.pre.perpetual.open_interest
    /\ perpetual.funding_index = Num(5)
    /\ perpetual.funding_index = last.pre.perpetual.funding_index
    /\ perpetual.funding_rate = last.pre.perpetual.funding_rate
    /\ perpetual.last_funding_time # Zero
    /\ perpetual.last_funding_time = last.pre.perpetual.last_funding_time
    /\ perpetual.initial_margin_ratio = last.pre.perpetual.initial_margin_ratio
====
